---- MODULE Spec2Model ----
(***************************************************************************)
(* Model of the report decryption engine (decrypt-payload.ts,              *)
(* get-reports.ts) and of the location fusion (calculateBestLocation).     *)
(*                                                                         *)
(* Byte arrays are sequences over 0..255, indexed from 1 (JavaScript index *)
(* i is sequence index i+1).  A base64 string is represented by the binary *)
(* string atob yields for it, or marked as one that atob rejects.          *)
(* A Date is represented by its offset from 2001-01-01T00:00:00Z in        *)
(* seconds (Date.UTC(2001,0,1) + s*1000 is strictly increasing in s).      *)
(* The library primitives (SHA-256, AES-GCM, the P-224 group) are replaced *)
(* by small stand-ins with the same interfaces and the same failure        *)
(* behaviour; the protocol composition around them is the code's.          *)
(***************************************************************************)
EXTENDS Integers, Sequences, FiniteSets, Bags, TLC

Ok(v) == [ok |-> TRUE, val |-> v]
Throw(e) == [ok |-> FALSE, err |-> e]

(* ------------------------------------------------------------------ *)
(* Typed-array and string helpers                                      *)
(* ------------------------------------------------------------------ *)

\* a base64 string: valid tells whether atob accepts it, bin is the binary
\* string atob returns for it
B64(bytes) == [valid |-> TRUE, bin |-> bytes]
BadBase64 == [valid |-> FALSE, bin |-> <<>>]

\* index clamping of TypedArray.prototype.subarray: a negative index counts
\* from the end, and the result is clamped into 0..len
RelIndex(len, k) ==
  IF k < 0 THEN (IF len + k < 0 THEN 0 ELSE len + k)
           ELSE (IF k > len THEN len ELSE k)

subarray(arr, begin, end) ==
  LET b == RelIndex(Len(arr), begin)
      e == RelIndex(Len(arr), end)
  IN IF e <= b THEN <<>> ELSE SubSeq(arr, b + 1, e)

\* arr[i] of JavaScript: undefined (written -1) outside the array
At(arr, i) == IF i >= 0 /\ i < Len(arr) THEN arr[i + 1] ELSE -1

\* ToInt32 of the operand of <<, >> and |: undefined becomes 0
ToInt32(v) == IF v < 0 THEN 0 ELSE v

\* atob + charCodeAt loop; atob throws on a malformed string
base64ToByteArray(base64) ==
  IF ~base64.valid THEN Throw("InvalidCharacterError") ELSE Ok(base64.bin)

parseHexChar(code) == code - (IF code < 58 THEN 48 ELSE IF code < 97 THEN 55 ELSE 87)

hexStringToByteArray(hexString) ==
  IF Len(hexString) % 2 # 0
  THEN Throw("Hex string must have an even length")
  ELSE Ok([k \in 1..(Len(hexString) \div 2) |->
             parseHexChar(hexString[2 * k - 1]) * 16 + parseHexChar(hexString[2 * k])])

\* (b0 << 24) | (b1 << 16) | (b2 << 8) | b3 : the result of << and | is a
\* signed 32-bit integer, so a first byte >= 128 gives a negative number
readUInt32BE(byteArray, offset) ==
  LET b0 == ToInt32(At(byteArray, offset))
      b1 == ToInt32(At(byteArray, offset + 1))
      b2 == ToInt32(At(byteArray, offset + 2))
      b3 == ToInt32(At(byteArray, offset + 3))
  IN (IF b0 >= 128 THEN b0 - 256 ELSE b0) * 16777216 + b1 * 65536 + b2 * 256 + b3

(* ------------------------------------------------------------------ *)
(* Library stand-ins: hash, AEAD, curve                                *)
(* ------------------------------------------------------------------ *)

\* a position-weighted checksum of the bytes (the sum of the terms, taken
\* as the size of a bag); changing one byte, or the length, changes it
WeightedSum(bytes) ==
  BagCardinality([k \in 1..Len(bytes) |->
                    (bytes[k] + 1) * (((k * k * 7 + k * 3) % 251) + 1)]) % 65521

Absorb(seed, bytes) == (seed * 257 + WeightedSum(bytes)) % 65521

\* crypto.subtle.digest("SHA-256", .): a 32-byte digest of the whole input
Digest(bytes) ==
  LET h == Absorb(7, bytes)
  IN [i \in 1..32 |-> IF i = 1 THEN h % 256
                      ELSE IF i = 2 THEN h \div 256
                      ELSE (h * i + 13 * i) % 256]

sha256(arrayBuffer) == Digest(arrayBuffer)

\* the 16-byte authentication tag of a ciphertext under key and iv
GcmTag(key, iv, ct) ==
  LET t == Absorb(Absorb(Absorb(11, key), iv), ct)
  IN [i \in 1..16 |-> IF i = 1 THEN t % 256
                      ELSE IF i = 2 THEN t \div 256
                      ELSE (t * i + 5 * i) % 256]

GcmStream(key, iv, j) == (key[j] + 3 * iv[((j - 1) % Len(iv)) + 1] + j) % 256

\* crypto.subtle.decrypt({name: "AES-GCM", iv, tagLength: 128}, key, data):
\* rejects (OperationError) when data is shorter than the tag or the tag does
\* not verify, and resolves to the plaintext otherwise
GcmDecrypt(key, iv, data) ==
  IF Len(data) < 16 THEN Throw("OperationError")
  ELSE LET ct  == SubSeq(data, 1, Len(data) - 16)
           tag == SubSeq(data, Len(data) - 15, Len(data))
       IN IF tag # GcmTag(key, iv, ct) THEN Throw("OperationError")
          ELSE Ok([j \in 1..Len(ct) |-> (ct[j] + 256 - GcmStream(key, iv, j)) % 256])

\* the sender's side of the AEAD, used to build genuine reports
GcmEncrypt(key, iv, pt) ==
  LET ct == [j \in 1..Len(pt) |-> (pt[j] + GcmStream(key, iv, j)) % 256]
  IN ct \o GcmTag(key, iv, ct)

\* The group: the non-zero scalars k stand for the points k*G, 0 for the
\* point at infinity.  Coordinates are 28 bytes, big-endian; the x-coordinates
\* of 6*G and 2*G have a leading zero nibble and a leading zero byte.
Scalars == 1..6
GroupMul(a, b) == (a * b) % 7

XCoord(k) ==
  [i \in 1..28 |-> IF i = 1 THEN (CASE k = 6 -> 7 [] k = 2 -> 0 [] OTHER -> 160 + k)
                   ELSE (k * 37 + i * 11) % 256]

YCoord(k) == [i \in 1..28 |-> (k * 53 + i * 7 + 1) % 256]

OnCurve(x, y) == \E k \in Scalars : x = XCoord(k) /\ y = YCoord(k)
ScalarOf(x, y) == CHOOSE k \in Scalars : x = XCoord(k) /\ y = YCoord(k)

\* uncompressed encoding of the point k*G: 0x04 || X || Y, 57 bytes
EncodePoint(k) == <<4>> \o XCoord(k) \o YCoord(k)

RECURSIVE BytesMod(_, _, _)
BytesMod(v, bytes, i) ==
  IF i > Len(bytes) THEN v ELSE BytesMod((v * 256 + bytes[i]) % 7, bytes, i + 1)

\* curve.keyFromPrivate(bytes): the scalar is read big-endian and reduced
\* modulo the group order; no input is rejected
keyFromPrivate(bytes) == BytesMod(0, bytes, 1)

\* curve.keyFromPublic(bytes, "hex") -> curve.decodePoint: only the format
\* byte and the length are examined
keyFromPublic(bytes) ==
  IF Len(bytes) = 57 /\ bytes[1] \in {4, 6, 7}
  THEN IF (bytes[1] = 6 /\ bytes[57] % 2 # 0) \/ (bytes[1] = 7 /\ bytes[57] % 2 # 1)
       THEN Throw("Assertion failed")
       ELSE Ok([x |-> SubSeq(bytes, 2, 29), y |-> SubSeq(bytes, 30, 57)])
  ELSE IF Len(bytes) = 29 /\ bytes[1] \in {2, 3}
  THEN IF \E k \in Scalars : XCoord(k) = SubSeq(bytes, 2, 29)
       THEN LET k == CHOOSE k \in Scalars : XCoord(k) = SubSeq(bytes, 2, 29)
            IN Ok([x |-> XCoord(k), y |-> YCoord(k)])
       ELSE Throw("invalid point")
  ELSE Throw("Unknown point format")

\* BN.toString(16): lower-case hex digits (as character codes) without
\* leading zeros
HexDigit(v) == IF v < 10 THEN 48 + v ELSE 87 + v
HexOfBytes(bytes) ==
  [i \in 1..(2 * Len(bytes)) |->
     HexDigit(IF i % 2 = 1 THEN bytes[(i + 1) \div 2] \div 16 ELSE bytes[i \div 2] % 16)]
RECURSIVE StripZeros(_)
StripZeros(hex) ==
  IF Len(hex) > 1 /\ hex[1] = 48 THEN StripZeros(Tail(hex)) ELSE hex
BNtoString16(bytes) == StripZeros(HexOfBytes(bytes))

\* the padding left out
padStartNone(hex, n) == hex

\* String.prototype.padStart(n, "0")
padStart(hex, n) ==
  IF Len(hex) >= n THEN hex ELSE [i \in 1..(n - Len(hex)) |-> 48] \o hex

\* privateKey.getPublic().getX(): the x-coordinate of priv*G; the point at
\* infinity has no x (getX throws a TypeError)
getPublicX(priv) ==
  IF priv = 0 THEN Throw("TypeError") ELSE Ok(XCoord(priv))

\* privateKey.derive(pub): the point is validated, then multiplied by the
\* scalar; the result is the x-coordinate of the product
derive(priv, pub) ==
  IF ~OnCurve(pub.x, pub.y) THEN Throw("public point not validated")
  ELSE IF priv = 0 THEN Throw("TypeError")
  ELSE Ok(XCoord(GroupMul(priv, ScalarOf(pub.x, pub.y))))

(* ------------------------------------------------------------------ *)
(* decrypt-payload.ts                                                  *)
(* ------------------------------------------------------------------ *)

byteArrayToBase64(byteArray) == B64(byteArray)

getAdvertisementKeyFromKeyPair(privateKeyPair) ==
  LET x == getPublicX(privateKeyPair)
  IN IF ~x.ok THEN x
     ELSE LET adv      == padStart(BNtoString16(x.val), 56)
              advBytes == hexStringToByteArray(adv)
          IN IF ~advBytes.ok THEN advBytes
             ELSE Ok(byteArrayToBase64(sha256(advBytes.val)))

getAdvertisementKey(privateKeyBase64) ==
  LET privateKeyByteArray == base64ToByteArray(privateKeyBase64)
  IN IF ~privateKeyByteArray.ok THEN privateKeyByteArray
     ELSE getAdvertisementKeyFromKeyPair(keyFromPrivate(privateKeyByteArray.val))

getECDHKeyDerivation(ephemeralPublicKey, privateKey) ==
  LET sharedKey == derive(privateKey, ephemeralPublicKey)
  IN IF ~sharedKey.ok THEN sharedKey
     ELSE hexStringToByteArray(BNtoString16(sharedKey.val))

\* the derivation with the ephemeral key hashed before the shared secret
keyDerivationKeyFirst(secretByteArray, ephemeralKeyByteArray) ==
  sha256(ephemeralKeyByteArray \o <<0, 0, 0, 1>> \o secretByteArray)

keyDerivation(secretByteArray, ephemeralKeyByteArray) ==
  sha256(secretByteArray \o <<0, 0, 0, 1>> \o ephemeralKeyByteArray)

decryptEncryptedData(encryptedData, symmetricKey, tag) ==
  LET decryptionKey == subarray(symmetricKey, 0, 16)
      iv            == subarray(symmetricKey, 16, Len(symmetricKey))
      combinedData  == encryptedData \o tag
  IN GcmDecrypt(decryptionKey, iv, combinedData)

decodeConfidence(payloadByteArray) == At(payloadByteArray, 4)

decodeSeenTime(payloadByteArray) == readUInt32BE(payloadByteArray, 0)

\* the longitude read at the offset of the latitude
decodeLocationSameOffset(payloadArrayBuffer) ==
  [latitude  |-> readUInt32BE(payloadArrayBuffer, 0),
   longitude |-> readUInt32BE(payloadArrayBuffer, 0),
   accuracy  |-> At(payloadArrayBuffer, 8)]

\* latitude and longitude are kept as the integers that the code divides by
\* 10000000.0 (units of 1e-7 degree)
decodeLocation(payloadArrayBuffer) ==
  [latitude  |-> readUInt32BE(payloadArrayBuffer, 0),
   longitude |-> readUInt32BE(payloadArrayBuffer, 4),
   accuracy  |-> At(payloadArrayBuffer, 8)]

\* the level taken from the low two bits
decodeBatteryStatusLowBits(decryptedData) ==
  LET statusByte   == ToInt32(At(decryptedData, 9))
      batteryLevel == statusByte % 4
      batteryMap   == <<"Full", "Medium", "Low", "Critical">>
  IN batteryMap[batteryLevel + 1]

decodeBatteryStatus(decryptedData) ==
  LET statusByte   == ToInt32(At(decryptedData, 9))
      batteryLevel == (statusByte \div 64) % 4
      batteryMap   == <<"Full", "Medium", "Low", "Critical">>
  IN batteryMap[batteryLevel + 1]

\* the three slices counted from the start of the payload
payloadSlicesFromStart(payloadByteArray) ==
  [ephemeralKeyBytes |-> subarray(payloadByteArray, 5, 62),
   encryptedData     |-> subarray(payloadByteArray, 62, 72),
   tag               |-> subarray(payloadByteArray, 72, 88)]

\* lines 78-88: the three slices of the payload
payloadSlices(payloadByteArray) ==
  LET n == Len(payloadByteArray)
  IN [ephemeralKeyBytes |-> subarray(payloadByteArray, n - 16 - 10 - 57, n - 16 - 10),
      encryptedData     |-> subarray(payloadByteArray, n - 16 - 10, n - 16),
      tag               |-> subarray(payloadByteArray, n - 16, n)]

decryptPayload(payloadBase64, privateKeyBase64) ==
  LET p == base64ToByteArray(payloadBase64)
      k == base64ToByteArray(privateKeyBase64)
  IN IF ~p.ok THEN p
     ELSE IF ~k.ok THEN k
     ELSE
       LET payloadByteArray  == p.val
           ephemeralKeyBytes == payloadSlices(payloadByteArray).ephemeralKeyBytes
           encryptedData     == payloadSlices(payloadByteArray).encryptedData
           tag               == payloadSlices(payloadByteArray).tag
           privateKeyPair    == keyFromPrivate(k.val)
           ephemeralKeyPair  == keyFromPublic(ephemeralKeyBytes)
       IN IF ~ephemeralKeyPair.ok THEN ephemeralKeyPair
          ELSE
            LET sharedKeyBytes == getECDHKeyDerivation(ephemeralKeyPair.val, privateKeyPair)
            IN IF ~sharedKeyBytes.ok THEN sharedKeyBytes
               ELSE
                 LET derivedKey == keyDerivation(sharedKeyBytes.val, ephemeralKeyBytes)
                     decryptedDataByteArray ==
                       decryptEncryptedData(encryptedData, derivedKey, tag)
                 IN IF ~decryptedDataByteArray.ok THEN decryptedDataByteArray
                    ELSE Ok([date       |-> decodeSeenTime(payloadByteArray),
                             confidence |-> decodeConfidence(payloadByteArray),
                             battery    |-> decodeBatteryStatus(decryptedDataByteArray.val),
                             location   |-> decodeLocation(decryptedDataByteArray.val)])

(* ------------------------------------------------------------------ *)
(* decrypt-payload.ts: calculateBestLocation                           *)
(*                                                                     *)
(* Coordinates are integers in units of 1e-7 degree, times are seconds *)
(* since 2001-01-01.  Distances are computed in fixed point and        *)
(* returned in decimetres.  The model is evaluated on reports whose    *)
(* age is a whole number of hours, where the weights are exact         *)
(* rationals; they are kept as integer multiples of 1/480.             *)
(* ------------------------------------------------------------------ *)

CLUSTER_RADIUS_M == 500

Abs(x) == IF x < 0 THEN 0 - x ELSE x

Has(obj, field) == field \in DOMAIN obj

\* cos of a latitude given in 1e-6 degree, times 10000 (series in x^2)
CosE4(latMicro) ==
  LET x  == ((Abs(latMicro) \div 1000) * 17453) \div 1000000
      y  == (x * x) \div 100
      y2 == (y * y) \div 10000
      y3 == (y2 * y) \div 10000
      y4 == ((y3 \div 10) * y) \div 1000
  IN 10000 - (y \div 2) + (y2 \div 24) - (y3 \div 720) + (y4 \div 40320)

RECURSIVE SqrtIter(_, _, _)
SqrtIter(n, lo, hi) ==
  IF lo >= hi THEN lo
  ELSE LET mid == (lo + hi + 1) \div 2
       IN IF mid * mid <= n THEN SqrtIter(n, mid, hi) ELSE SqrtIter(n, lo, mid - 1)

\* great-circle distance in decimetres.  For separations below 3 km the
\* haversine reduces to R * sqrt(dLat^2 + cos(lat1) cos(lat2) dLon^2) (angles
\* in radians, R = 6371000: 1.11195 dm per 1e-6 degree); beyond 3 km the
\* larger of the two components is returned, which is all the caller's
\* comparison with the cluster radius needs
haversineMeters(lat1, lon1, lat2, lon2) ==
  LET dLat   == Abs((lat2 \div 10) - (lat1 \div 10))
      dLon   == Abs((lon2 \div 10) - (lon1 \div 10))
      c      == (CosE4(lat1 \div 10) + CosE4(lat2 \div 10)) \div 2
      dLonC  == (dLon \div 10000) * c + ((dLon % 10000) * c) \div 10000
      far    == dLat > 27000 \/ dLonC > 27000
      dy     == (dLat * 11119) \div 10000
      dx     == (dLonC * 11119) \div 10000
  IN IF far
     THEN (IF dLat > dLonC THEN (dLat \div 10000) * 11119 ELSE (dLonC \div 10000) * 11119)
     ELSE SqrtIter(dy * dy + dx * dx, 0, 46000)

\* the filter without the latitude range test
ValidReportNoLatRange(r) ==
  /\ Has(r, "decrypedPayload")
  /\ Has(r.decrypedPayload, "location")
  /\ Has(r.decrypedPayload.location, "latitude")
  /\ Has(r.decrypedPayload.location, "longitude")
  /\ Has(r.decrypedPayload.location, "accuracy")
  /\ Has(r.decrypedPayload, "date")
  /\ Abs(r.decrypedPayload.location.longitude) <= 1800000000

\* the filter without the longitude range test
ValidReportNoLonRange(r) ==
  /\ Has(r, "decrypedPayload")
  /\ Has(r.decrypedPayload, "location")
  /\ Has(r.decrypedPayload.location, "latitude")
  /\ Has(r.decrypedPayload.location, "longitude")
  /\ Has(r.decrypedPayload.location, "accuracy")
  /\ Has(r.decrypedPayload, "date")
  /\ Abs(r.decrypedPayload.location.latitude) <= 900000000

\* the filter of lines 192-203
ValidReport(r) ==
  /\ Has(r, "decrypedPayload")
  /\ Has(r.decrypedPayload, "location")
  /\ Has(r.decrypedPayload.location, "latitude")
  /\ Has(r.decrypedPayload.location, "longitude")
  /\ Has(r.decrypedPayload.location, "accuracy")
  /\ Has(r.decrypedPayload, "date")
  /\ Abs(r.decrypedPayload.location.latitude) <= 900000000
  /\ Abs(r.decrypedPayload.location.longitude) <= 1800000000

RECURSIVE Filter(_, _)
Filter(seq, keep) ==
  IF seq = <<>> THEN <<>>
  ELSE IF keep[1] THEN <<Head(seq)>> \o Filter(Tail(seq), Tail(keep))
       ELSE Filter(Tail(seq), Tail(keep))

\* the comparator a.date - b.date in place of b.date - a.date
RECURSIVE InsertOldestFirst(_, _)
InsertOldestFirst(sorted, r) ==
  IF sorted = <<>> THEN <<r>>
  ELSE IF r.decrypedPayload.date < Head(sorted).decrypedPayload.date
       THEN <<r>> \o sorted
       ELSE <<Head(sorted)>> \o InsertOldestFirst(Tail(sorted), r)

\* Array.prototype.sort with the comparator b.date - a.date (stable)
RECURSIVE InsertNewestFirst(_, _)
InsertNewestFirst(sorted, r) ==
  IF sorted = <<>> THEN <<r>>
  ELSE IF r.decrypedPayload.date > Head(sorted).decrypedPayload.date
       THEN <<r>> \o sorted
       ELSE <<Head(sorted)>> \o InsertNewestFirst(Tail(sorted), r)

\* the sort left out: the first valid report is the anchor
SortNewestFirstNone(seq) == seq

RECURSIVE SortNewestFirst(_)
SortNewestFirst(seq) ==
  IF seq = <<>> THEN <<>>
  ELSE InsertNewestFirst(SortNewestFirst(SubSeq(seq, 1, Len(seq) - 1)), seq[Len(seq)])

ValidSorted(deviceReports) ==
  SortNewestFirst(Filter(deviceReports,
                         [k \in 1..Len(deviceReports) |-> ValidReport(deviceReports[k])]))

\* the cluster filter leaving out the reports at the centre itself
InRadiusNotCentre(clusterCenter, r) ==
  LET dist == haversineMeters(clusterCenter.latitude, clusterCenter.longitude,
                              r.decrypedPayload.location.latitude,
                              r.decrypedPayload.location.longitude)
  IN dist > 0 /\ dist <= CLUSTER_RADIUS_M * 10

\* the cluster filter with a radius of 1000 m
InRadiusWide(clusterCenter, r) ==
  haversineMeters(clusterCenter.latitude, clusterCenter.longitude,
                  r.decrypedPayload.location.latitude,
                  r.decrypedPayload.location.longitude) <= 1000 * 10

InRadius(clusterCenter, r) ==
  haversineMeters(clusterCenter.latitude, clusterCenter.longitude,
                  r.decrypedPayload.location.latitude,
                  r.decrypedPayload.location.longitude) <= CLUSTER_RADIUS_M * 10

ClusterOf(valid) ==
  Filter(valid, [k \in 1..Len(valid) |-> InRadius(valid[1].decrypedPayload.location, valid[k])])

RECURSIVE Pow2(_)
Pow2(n) == IF n <= 0 THEN 1 ELSE 2 * Pow2(n - 1)

\* (1 / accuracy) * Math.pow(0.5, ageHours) in units of 1/480; Math.pow
\* underflows to 0 from 1075 hours on
Weight(accuracy, ageHours) ==
  IF ageHours >= 1075 THEN 0
  ELSE IF ageHours >= 0 THEN (480 \div accuracy) \div Pow2(ageHours)
  ELSE (480 \div accuracy) * Pow2(0 - ageHours)

Max(a, b) == IF a >= b THEN a ELSE b

\* the loop of lines 230-239; latitudes and longitudes are summed as offsets
\* from the cluster centre, so that total / totalWeight is centre + sum / weight
RECURSIVE Accumulate(_, _, _, _)
Accumulate(cluster, k, now, centre) ==
  IF k > Len(cluster) THEN [totalLat |-> 0, totalLon |-> 0, totalWeight |-> 0]
  ELSE LET rest     == Accumulate(cluster, k + 1, now, centre)
           loc      == cluster[k].decrypedPayload.location
           ageHours == (now - cluster[k].decrypedPayload.date) \div 3600
           accuracy == Max(1, loc.accuracy)
           weight   == Weight(accuracy, ageHours)
       IN [totalLat    |-> rest.totalLat + (loc.latitude - centre.latitude) * weight,
           totalLon    |-> rest.totalLon + (loc.longitude - centre.longitude) * weight,
           totalWeight |-> rest.totalWeight + weight]

\* null is the record [null |-> TRUE]; lat and lon are centre + num / den,
\* NaN when the total weight is 0
calculateBestLocation(deviceReports, now) ==
  LET valid == ValidSorted(deviceReports)
  IN IF Len(valid) = 0 THEN [null |-> TRUE]
     ELSE LET newest        == valid[1]
              clusterCenter == newest.decrypedPayload.location
              cluster       == ClusterOf(valid)
              sums          == Accumulate(cluster, 1, now, clusterCenter)
          IN [lat |-> [centre |-> clusterCenter.latitude, num |-> sums.totalLat,
                       den |-> sums.totalWeight, nan |-> sums.totalWeight = 0],
              lon |-> [centre |-> clusterCenter.longitude, num |-> sums.totalLon,
                       den |-> sums.totalWeight, nan |-> sums.totalWeight = 0],
              reportsInCluster  |-> Len(cluster),
              totalValidReports |-> Len(valid)]

(* ------------------------------------------------------------------ *)
(* Inputs: private keys and raw reports                                *)
(* ------------------------------------------------------------------ *)

MaxReports == 3
MaxCalls == 2
MaxKeyReports == 2

\* the accessory's scalar is 3: <<3>> is its private key; <<>> and <<7>> are
\* zero modulo the group order; <<10>> is the accessory's scalar plus the
\* group order (out of range)
KeyPool == {B64(<<3>>), B64(<<>>), B64(<<7>>), BadBase64}
AllKeys == KeyPool \cup {B64(<<10>>)}

RECURSIVE BytesValue(_, _, _)
BytesValue(v, bytes, i) ==
  IF i > Len(bytes) THEN v ELSE BytesValue(v * 256 + bytes[i], bytes, i + 1)

\* a private key is valid when it is well-formed base64 of a scalar in 1..n-1
ValidKey(key) == key.valid /\ BytesValue(0, key.bin, 1) \in Scalars

\* what the accessory sends: seen time, confidence, (optional padding,)
\* ephemeral public key e*G, and the plaintext sealed under the key derived
\* from the 28-byte x-coordinate of e*(3*G)
SenderPayload(ts, conf, pad, e, pt) ==
  LET eph    == EncodePoint(e)
      shared == XCoord(GroupMul(e, 3))
      dk     == Digest(shared \o <<0, 0, 0, 1>> \o eph)
  IN ts \o <<conf>> \o pad \o eph \o GcmEncrypt(SubSeq(dk, 1, 16), SubSeq(dk, 17, 32), pt)

Alter(bytes, idx) == [bytes EXCEPT ![idx] = (@ + 1) % 256]

PlainA == <<24, 7, 37, 128, 2, 250, 240, 128, 10, 0>>
PlainB == <<24, 7, 37, 228, 2, 250, 240, 128, 20, 64>>
PlainC == <<232, 7, 37, 228, 250, 250, 240, 128, 0, 191>>

PayA == SenderPayload(<<0, 0, 0, 100>>, 1, <<>>, 1, PlainA)
PayB == SenderPayload(<<0, 0, 0, 50>>, 2, <<>>, 4, PlainB)
PayC == SenderPayload(<<0, 0, 0, 100>>, 3, <<>>, 5, PlainC)
PayD == SenderPayload(<<200, 0, 0, 1>>, 0, <<0>>, 1, PlainB)
PayE == SenderPayload(<<0, 0, 0, 60>>, 1, <<>>, 2, PlainA)

\* the raw reports a server may hold: genuine ones (a-e; a and c have the
\* same seen time, d has a seen time with the top bit set and 89 bytes, the
\* shared secret of e has a leading zero nibble), one with an altered tag
\* byte (g), one whose ephemeral key is not a point of the curve (i) and a
\* truncated one (j)
ReportPool ==
  { [id |-> "a", payload |-> B64(PayA)],
    [id |-> "b", payload |-> B64(PayB)],
    [id |-> "c", payload |-> B64(PayC)],
    [id |-> "d", payload |-> B64(PayD)],
    [id |-> "e", payload |-> B64(PayE)],
    [id |-> "g", payload |-> B64(Alter(PayA, 88))],
    [id |-> "i", payload |-> B64(Alter(PayC, 40))],
    [id |-> "j", payload |-> B64(SubSeq(PayA, 1, 82))] }

\* fetch returns fresh report objects; a property that is absent from the
\* JavaScript object (decrypedPayload here) is absent from the record
Fetched(raw) == [id |-> raw.id, payload |-> raw.payload]

Orders(S) ==
  { f \in [1..Cardinality(S) -> S] : \A x, y \in 1..Cardinality(S) : x # y => f[x] # f[y] }

\* a sort that puts a report before the reports of equal date
RECURSIVE InsertSortedBeforeTies(_, _, _)
InsertSortedBeforeTies(sorted, x, objs) ==
  IF sorted = <<>> THEN <<x>>
  ELSE IF objs[x].decrypedPayload.date <= objs[Head(sorted)].decrypedPayload.date
       THEN <<x>> \o sorted
       ELSE <<Head(sorted)>> \o InsertSortedBeforeTies(Tail(sorted), x, objs)

\* Array.prototype.sort with the comparator a.date - b.date (stable): idxs is
\* a sequence of indices into objs
RECURSIVE InsertSorted(_, _, _)
InsertSorted(sorted, x, objs) ==
  IF sorted = <<>> THEN <<x>>
  ELSE IF objs[x].decrypedPayload.date < objs[Head(sorted)].decrypedPayload.date
       THEN <<x>> \o sorted
       ELSE <<Head(sorted)>> \o InsertSorted(Tail(sorted), x, objs)

\* the sort left out
SortByDateNone(idxs, objs) == idxs

RECURSIVE SortByDate(_, _)
SortByDate(idxs, objs) ==
  IF idxs = <<>> THEN <<>>
  ELSE InsertSorted(SortByDate(SubSeq(idxs, 1, Len(idxs) - 1), objs), idxs[Len(idxs)], objs)

MaxFusionReports == 3

FusionNow == 226389 * 3600

Rep(id, lat, lon, acc, date) ==
  [id |-> id, payload |-> B64(<<>>),
   decrypedPayload |->
     [date |-> date, confidence |-> 0, battery |-> "Full",
      location |-> [latitude |-> lat, longitude |-> lon, accuracy |-> acc]]]

\* the reports calculateBestLocation is applied to: n1 is the reference
\* point, n2 lies 489 m north of it, n3 600 m north, n4 517 m east, n5 483 m
\* east; n6 is at the reference point, with the age and accuracy of n1 and
\* n3; old is 1075 hours old; x1 and x2 are out of range; u1-u4 lack the
\* accuracy, the date, the payload, or are null
FusionPool ==
  { Rep("n1", 403121536, 50000000, 10, FusionNow),
    Rep("n2", 403121536 + 44000, 50000000, 20, FusionNow - 3600),
    Rep("n3", 403121536 + 54000, 50000000, 10, FusionNow),
    Rep("n4", 403121536, 50000000 + 61000, 0, FusionNow - 7200),
    Rep("n5", 403121536, 50000000 + 57000, 30, FusionNow - 3600),
    Rep("n6", 403121536, 50000000, 10, FusionNow),
    Rep("old", 403121536, 50000000, 10, FusionNow - 1075 * 3600),
    Rep("x1", 900000001, 50000000, 10, FusionNow + 3600),
    Rep("x2", 403121536, 0 - 1800000001, 10, FusionNow + 3600),
    [id |-> "u1", payload |-> B64(<<>>),
     decrypedPayload |->
       [date |-> FusionNow + 3600, confidence |-> 0, battery |-> "Full",
        location |-> [latitude |-> 403121536, longitude |-> 50000000]]],
    [id |-> "u2", payload |-> B64(<<>>),
     decrypedPayload |->
       [confidence |-> 0, battery |-> "Full",
        location |-> [latitude |-> 403121536, longitude |-> 50000000, accuracy |-> 10]]],
    [id |-> "u3", payload |-> B64(<<>>)],
    <<>> }

FusionInputs ==
  UNION { { f \in [1..n -> FusionPool] : \A x, y \in 1..n : x # y => f[x] # f[y] } :
          n \in 0..MaxFusionReports }

(* ------------------------------------------------------------------ *)
(* get-reports.ts: getReportsForDevice                                 *)
(* ------------------------------------------------------------------ *)

VARIABLES
  server,            \* the raw reports the server holds for the device
  device,            \* the Device object passed to getReportsForDevice
  pc,                \* position in getReportsForDevice
  reports,           \* the fetched DeviceReport objects
  decryptedReports,  \* indices (references) of the reports pushed, in order
  i,                 \* loop counter
  result,            \* what the promise settles to
  attempts,          \* decryptPayload calls made per report of this call
  calls,             \* calls started so far
  deviceAtCall,      \* the device as it was when the call started
  prev,              \* input and output of the call before this one
  fInput,            \* the array passed to calculateBestLocation
  fpc,               \* "off", "ready" or "returned"
  fNow,              \* what Date.now() returned, in seconds since 2001
  fLocals,           \* the locals valid and cluster of the call
  fOutput,           \* the value returned
  fHistory,          \* the calls of calculateBestLocation made before this one
  dIn,               \* the argument a function of decrypt-payload.ts is applied to
  dpc,               \* "off", "ready" or "done"
  dOut,              \* what the function returned
  tlReports,         \* the seen times of the reports prop of TimelineControl
  filterRange,       \* the filterRange prop: the window [lo, hi], 1-based
  tlLast,            \* the handler of TimelineControl that ran last
  mvFile,            \* the file whose MapView component is mounted
  mvDevices,         \* lastSeen and battery of the Device objects of the settings
  currentDevice,     \* the id of the device chosen, or "none"
  mvCache,           \* what useDeviceReports holds per device
  isLoading,         \* isLoading || isValidating of the hook
  guessedLocation,   \* <<lat, lon>>, or <<>> for undefined
  qCache,            \* the data the query client holds for the query key
  qPolls,            \* fetches of the query made so far
  qLast,             \* the last run of queryFn: what it read, sent and received
  rHook,             \* the library of useDeviceReports: "react-query" or "swr"
  rUsePoller,        \* the usePoller argument of the hook
  rPhase,            \* "idle", "fetching", "waiting", "success" or "error"
  rFailureCount,     \* the count the library passes to the retry decision
  rRetries,          \* retries made for the current fetch
  rError,            \* the status of the last error
  rNow,              \* the time in milliseconds
  rFailedAt,         \* when the last attempt failed
  rFetches           \* fetches started so far

batchVars == <<server, device, pc, reports, decryptedReports, i, result, attempts,
               calls, deviceAtCall, prev>>
fusionVars == <<fInput, fpc, fNow, fLocals, fOutput, fHistory>>
decodeVars == <<dIn, dpc, dOut>>
timelineVars == <<tlReports, filterRange, tlLast>>
mapVars == <<mvFile, mvDevices, currentDevice, mvCache, isLoading, guessedLocation>>
queryVars == <<qCache, qPolls, qLast>>
retryVars == <<rHook, rUsePoller, rPhase, rFailureCount, rRetries, rError, rNow,
               rFailedAt, rFetches>>
uiVars == <<timelineVars, mapVars, queryVars, retryVars>>
vars == <<batchVars, fusionVars, decodeVars, uiVars>>

NoResult == [ok |-> FALSE, err |-> "pending"]
NoPrev == [valid |-> FALSE, input |-> {}, output |-> <<>>]

\* a device as the settings create it: no advertisement key yet, never seen
NewDevice(k) == [privateKey |-> k, advertismentKey |-> B64(<<>>),
                 lastSeen |-> "null", battery |-> "Unknown"]

NoLocals == [valid |-> <<>>, cluster |-> <<>>]

FusionOff ==
  /\ fInput = <<>>
  /\ fpc = "off"
  /\ fNow = 0
  /\ fLocals = NoLocals
  /\ fOutput = [null |-> TRUE]
  /\ fHistory = <<>>

NoOutput == [op |-> "none"]

DecodeOff ==
  /\ dIn = [kind |-> "none"]
  /\ dpc = "off"
  /\ dOut = NoOutput

TimelineOff ==
  /\ tlReports = <<>>
  /\ filterRange = <<0, 0>>
  /\ tlLast = [op |-> "none"]

MapViewOff ==
  /\ mvFile = "off"
  /\ mvDevices = <<>>
  /\ currentDevice = "none"
  /\ mvCache = <<>>
  /\ isLoading = FALSE
  /\ guessedLocation = <<>>

QueryOff ==
  /\ qCache = <<>>
  /\ qPolls = 0
  /\ qLast = [op |-> "none"]

RetryOff ==
  /\ rHook = "off"
  /\ rUsePoller = FALSE
  /\ rPhase = "off"
  /\ rFailureCount = 0
  /\ rRetries = 0
  /\ rError = 0
  /\ rNow = 0
  /\ rFailedAt = 0
  /\ rFetches = 0

UiOff ==
  /\ TimelineOff
  /\ MapViewOff
  /\ QueryOff
  /\ RetryOff

Init ==
  /\ server \in { S \in SUBSET ReportPool : Cardinality(S) <= MaxReports }
  /\ device \in { NewDevice(k) : k \in KeyPool }
  /\ pc = "idle"
  /\ reports = <<>>
  /\ decryptedReports = <<>>
  /\ i = 0
  /\ result = NoResult
  /\ attempts = <<>>
  /\ calls = 0
  /\ deviceAtCall = device
  /\ prev = NoPrev
  /\ FusionOff
  /\ DecodeOff
  /\ UiOff

Output == [k \in 1..Len(decryptedReports) |-> reports[decryptedReports[k]]]

\* line 13: device.advertismentKey = await getAdvertisementKey(device.privateKey)
Call ==
  /\ pc \in {"idle", "done", "failed"}
  /\ calls < MaxCalls
  /\ calls' = calls + 1
  /\ deviceAtCall' = device
  /\ prev' = IF pc = "done"
             THEN [valid |-> TRUE,
                   input |-> { reports[k].id : k \in 1..Len(reports) },
                   output |-> [k \in 1..Len(result.val) |->
                                [id              |-> result.val[k].id,
                                 decrypedPayload |-> result.val[k].decrypedPayload]]]
             ELSE prev
  /\ reports' = <<>>
  /\ decryptedReports' = <<>>
  /\ attempts' = <<>>
  /\ i' = 0
  /\ LET adv == getAdvertisementKey(device.privateKey)
     IN IF adv.ok
        THEN /\ device' = [device EXCEPT !.advertismentKey = adv.val]
             /\ pc' = "fetch"
             /\ result' = NoResult
        ELSE /\ device' = device
             /\ pc' = "failed"
             /\ result' = adv
  /\ UNCHANGED <<server, fusionVars, decodeVars, uiVars>>

\* lines 17-27: the fetch resolves to the server's reports, in some order
Fetch ==
  /\ pc = "fetch"
  /\ \E order \in Orders(server) :
       reports' = [k \in 1..Cardinality(server) |-> Fetched(order[k])]
  /\ attempts' = [k \in 1..Cardinality(server) |-> 0]
  /\ decryptedReports' = <<>>
  /\ i' = 0
  /\ pc' = "loop"
  /\ UNCHANGED <<server, device, result, calls, deviceAtCall, prev, fusionVars, decodeVars, uiVars>>

\* lines 84-88, 91-93, 113-127: the fetch rejects
FetchFail ==
  /\ pc = "fetch"
  /\ pc' = "failed"
  /\ result' = Throw("Network response was not ok")
  /\ UNCHANGED <<server, device, reports, decryptedReports, i, attempts, calls,
                 deviceAtCall, prev, fusionVars, decodeVars, uiVars>>

\* decryptReport without the try/catch: a failure rejects the whole call
DecryptReportNoCatch ==
  /\ pc = "loop"
  /\ i < Len(reports)
  /\ LET decryptedPayload == decryptPayload(reports[i + 1].payload, device.privateKey)
     IN IF decryptedPayload.ok
        THEN /\ reports' = [reports EXCEPT ![i + 1] =
                               [id              |-> @.id,
                                payload         |-> @.payload,
                                decrypedPayload |-> decryptedPayload.val]]
             /\ decryptedReports' = Append(decryptedReports, i + 1)
             /\ result' = result
             /\ IF i % 10 = 0
                THEN pc' = "yield" /\ i' = i
                ELSE pc' = "loop" /\ i' = i + 1
        ELSE /\ UNCHANGED <<reports, decryptedReports, i>>
             /\ result' = decryptedPayload
             /\ pc' = "failed"
  /\ attempts' = [attempts EXCEPT ![i + 1] = @ + 1]
  /\ UNCHANGED <<server, device, calls, deviceAtCall, prev, fusionVars, decodeVars, uiVars>>

\* decryptReport with a catch block that keeps the report, with an empty
\* payload in place of the decoded one
DecryptReportKeepsFailed ==
  /\ pc = "loop"
  /\ i < Len(reports)
  /\ LET decryptedPayload == decryptPayload(reports[i + 1].payload, device.privateKey)
     IN /\ reports' = [reports EXCEPT ![i + 1] =
                         [id              |-> @.id,
                          payload         |-> @.payload,
                          decrypedPayload |->
                            IF decryptedPayload.ok THEN decryptedPayload.val
                            ELSE [date |-> 0, confidence |-> 0, battery |-> "Unknown",
                                  location |-> [latitude |-> 0, longitude |-> 0,
                                                accuracy |-> 0]]]]
        /\ decryptedReports' = Append(decryptedReports, i + 1)
  /\ attempts' = [attempts EXCEPT ![i + 1] = @ + 1]
  /\ IF i % 10 = 0
     THEN pc' = "yield" /\ i' = i
     ELSE pc' = "loop" /\ i' = i + 1
  /\ UNCHANGED <<server, device, result, calls, deviceAtCall, prev, fusionVars, decodeVars, uiVars>>

\* lines 31-42, 45: await decryptReport(reports[i])
DecryptReport ==
  /\ pc = "loop"
  /\ i < Len(reports)
  /\ LET decryptedPayload == decryptPayload(reports[i + 1].payload, device.privateKey)
     IN IF decryptedPayload.ok
        THEN /\ reports' = [reports EXCEPT ![i + 1] =
                               [id              |-> @.id,
                                payload         |-> @.payload,
                                decrypedPayload |-> decryptedPayload.val]]
             /\ decryptedReports' = Append(decryptedReports, i + 1)
        ELSE UNCHANGED <<reports, decryptedReports>>
  /\ attempts' = [attempts EXCEPT ![i + 1] = @ + 1]
  /\ IF i % 10 = 0
     THEN pc' = "yield" /\ i' = i
     ELSE pc' = "loop" /\ i' = i + 1
  /\ UNCHANGED <<server, device, result, calls, deviceAtCall, prev,
                 fusionVars, decodeVars, uiVars>>

\* lines 46-48: every tenth report the loop yields to the event loop
Yield ==
  /\ pc = "yield"
  /\ pc' = "loop"
  /\ i' = i + 1
  /\ UNCHANGED <<server, device, reports, decryptedReports, result, attempts, calls,
                 deviceAtCall, prev, fusionVars, decodeVars, uiVars>>

\* the return with the device's last-seen status written as a side effect
SortAndReturnSetsLastSeen ==
  /\ pc = "loop"
  /\ i >= Len(reports)
  /\ decryptedReports' = SortByDate(decryptedReports, reports)
  /\ result' = Ok([k \in 1..Len(decryptedReports) |->
                     reports[SortByDate(decryptedReports, reports)[k]]])
  /\ device' = [device EXCEPT !.lastSeen = "set", !.battery = "Full"]
  /\ pc' = "done"
  /\ UNCHANGED <<server, reports, i, attempts, calls, deviceAtCall, prev, fusionVars, decodeVars, uiVars>>

\* lines 51-56: sort in place by date and return
SortAndReturn ==
  /\ pc = "loop"
  /\ i >= Len(reports)
  /\ decryptedReports' = SortByDate(decryptedReports, reports)
  /\ result' = Ok([k \in 1..Len(decryptedReports) |->
                     reports[SortByDate(decryptedReports, reports)[k]]])
  /\ pc' = "done"
  /\ UNCHANGED <<server, device, reports, i, attempts, calls, deviceAtCall, prev,
                 fusionVars, decodeVars, uiVars>>

Next == Call \/ Fetch \/ FetchFail \/ DecryptReport \/ Yield \/ SortAndReturn

Spec == Init /\ [][Next]_vars

\* every kind of private key, on small batches
InitKeys ==
  /\ server \in { S \in SUBSET ReportPool : Cardinality(S) <= MaxKeyReports }
  /\ device \in { NewDevice(k) : k \in AllKeys }
  /\ pc = "idle"
  /\ reports = <<>>
  /\ decryptedReports = <<>>
  /\ i = 0
  /\ result = NoResult
  /\ attempts = <<>>
  /\ calls = 0
  /\ deviceAtCall = device
  /\ prev = NoPrev
  /\ FusionOff
  /\ DecodeOff
  /\ UiOff

SpecKeys == InitKeys /\ [][Next]_vars

\* every payload of 0..82 bytes that is a prefix or a suffix of a genuine
\* payload of 88 or 89 bytes
Truncations ==
  { SubSeq(p, 1, n) : p \in {PayA, PayD}, n \in 0..82 } \cup
  { SubSeq(p, Len(p) - n + 1, Len(p)) : p \in {PayA, PayD}, n \in 0..82 }

\* the server holds one truncated report and one genuine report
InitShort ==
  /\ \E bytes \in Truncations :
       server = { [id |-> "t", payload |-> B64(bytes)], [id |-> "b", payload |-> B64(PayB)] }
  /\ device \in { NewDevice(k) : k \in {B64(<<3>>), B64(<<10>>)} }
  /\ pc = "idle"
  /\ reports = <<>>
  /\ decryptedReports = <<>>
  /\ i = 0
  /\ result = NoResult
  /\ attempts = <<>>
  /\ calls = 0
  /\ deviceAtCall = device
  /\ prev = NoPrev
  /\ FusionOff
  /\ DecodeOff
  /\ UiOff

SpecShort == InitShort /\ [][Next]_vars

(* ------------------------------------------------------------------ *)
(* calculateBestLocation applied to an array of reports                *)
(* ------------------------------------------------------------------ *)

InitFusion ==
  /\ server = {}
  /\ device = NewDevice(B64(<<3>>))
  /\ pc = "off"
  /\ reports = <<>>
  /\ decryptedReports = <<>>
  /\ i = 0
  /\ result = NoResult
  /\ attempts = <<>>
  /\ calls = 0
  /\ deviceAtCall = device
  /\ prev = NoPrev
  /\ fInput \in FusionInputs
  /\ fpc = "ready"
  /\ fNow = 0
  /\ fLocals = NoLocals
  /\ fOutput = [null |-> TRUE]
  /\ fHistory = <<>>
  /\ DecodeOff
  /\ UiOff

\* the function filtering and sorting the array it is given, in place
CalculateBestLocationInPlace ==
  /\ fpc = "ready"
  /\ \E now \in {FusionNow, FusionNow + 3600} :
       /\ fNow' = now
       /\ fOutput' = calculateBestLocation(fInput, now)
  /\ fLocals' = LET valid == ValidSorted(fInput)
                IN [valid   |-> valid,
                    cluster |-> IF valid = <<>> THEN <<>> ELSE ClusterOf(valid)]
  /\ fInput' = ValidSorted(fInput)
  /\ fpc' = "returned"
  /\ UNCHANGED <<fHistory, batchVars, decodeVars, uiVars>>

\* lines 190-247; Date.now() is the current hour or the next
CalculateBestLocation ==
  /\ fpc = "ready"
  /\ \E now \in {FusionNow, FusionNow + 3600} :
       /\ fNow' = now
       /\ fOutput' = calculateBestLocation(fInput, now)
  /\ fLocals' = LET valid == ValidSorted(fInput)
                IN [valid   |-> valid,
                    cluster |-> IF valid = <<>> THEN <<>> ELSE ClusterOf(valid)]
  /\ fpc' = "returned"
  /\ UNCHANGED <<fInput, fHistory, batchVars, decodeVars, uiVars>>

NextFusion == CalculateBestLocation

SpecFusion == InitFusion /\ [][NextFusion]_vars

(* ------------------------------------------------------------------ *)
(* calculateBestLocation called repeatedly                            *)
(* ------------------------------------------------------------------ *)

MaxRepeatReports == 2
MaxFusionCalls == 3

Reverse(seq) == [k \in 1..Len(seq) |-> seq[Len(seq) + 1 - k]]

\* the reports of the repeated calls: three valid ones of different age and
\* place, the one of 1075 hours, one out of range, and null
RepeatPool ==
  { r \in FusionPool : r = <<>> \/ r.id \in {"n1", "n2", "n3", "old", "x1"} }

InitFusionRepeat ==
  /\ InitFusion
  /\ Len(fInput) <= MaxRepeatReports
  /\ \A k \in 1..Len(fInput) : fInput[k] \in RepeatPool

\* map-view.tsx line 108: the caller calls the function again, with the
\* array of an earlier call, or with the current array reversed or shortened
CallAgain ==
  /\ fpc = "returned"
  /\ Len(fHistory) + 1 < MaxFusionCalls
  /\ fHistory' = Append(fHistory, [input |-> fInput, now |-> fNow, output |-> fOutput])
  /\ fInput' \in {fInput, Reverse(fInput), SubSeq(fInput, 2, Len(fInput))}
                  \cup { fHistory[k].input : k \in 1..Len(fHistory) }
  /\ fpc' = "ready"
  /\ fNow' = 0
  /\ fLocals' = NoLocals
  /\ fOutput' = [null |-> TRUE]
  /\ UNCHANGED <<batchVars, decodeVars, uiVars>>

NextFusionRepeat == CalculateBestLocation \/ CallAgain

SpecFusionRepeat == InitFusionRepeat /\ [][NextFusionRepeat]_vars

(* ------------------------------------------------------------------ *)
(* The functions of decrypt-payload.ts applied to one argument         *)
(* ------------------------------------------------------------------ *)

EdgeBytes == {0, 1, 127, 128, 255}

\* 10-byte arrays: every combination of edge values in bytes 0-3 (bytes 4-7
\* hold them in reverse), and every value of byte 9 with three of byte 8
ByteArrays ==
  { <<a, b, c, d, d, c, b, a, b, c>> : a \in EdgeBytes, b \in EdgeBytes,
                                       c \in EdgeBytes, d \in EdgeBytes }
  \cup { <<24, 7, 37, 128, 2, 250, 240, 128, acc, bat>> : acc \in {0, 128, 255}, bat \in 0..255 }

\* payloads of 83 bytes and more: a genuine payload of 88 and one of 89
\* bytes, with 0 to 5 of the leading bytes removed or 1 to 3 bytes prepended
LongPayloads ==
  { SubSeq(p, 1 + cut, Len(p)) : p \in {PayA, PayD}, cut \in 0..5 }
  \cup { [k \in 1..n |-> 200 + k] \o p : p \in {PayA, PayD}, n \in 1..3 }

\* what the accessory seals: the plaintext under the first and the second
\* half of the digest of secret || 00 00 00 01 || ephemeral key
Sealed(secret, eph, pt) ==
  LET dk == Digest(secret \o <<0, 0, 0, 1>> \o eph)
  IN GcmEncrypt(SubSeq(dk, 1, 16), SubSeq(dk, 17, 32), pt)

PrivateKeys ==
  { B64(<<k>>) : k \in 0..13 } \cup { B64(<<0, k>>) : k \in 1..6 } \cup {B64(<<>>), BadBase64}

DecodeInputs ==
  { [kind |-> "bytes", bytes |-> b] : b \in ByteArrays }
  \cup { [kind |-> "payload", bytes |-> b] : b \in LongPayloads }
  \cup { [kind |-> "ecdh", e |-> e, k |-> k] : e \in Scalars, k \in Scalars }
  \cup { [kind |-> "sealed", secret |-> XCoord(x), eph |-> EncodePoint(e), pt |-> pt,
          data |-> Sealed(XCoord(x), EncodePoint(e), pt)] :
            x \in Scalars, e \in Scalars, pt \in {PlainA, PlainB, PlainC} }
  \cup { [kind |-> "key", key |-> k] : k \in PrivateKeys }

InitDecode ==
  /\ server = {}
  /\ device = NewDevice(B64(<<3>>))
  /\ pc = "off"
  /\ reports = <<>>
  /\ decryptedReports = <<>>
  /\ i = 0
  /\ result = NoResult
  /\ attempts = <<>>
  /\ calls = 0
  /\ deviceAtCall = device
  /\ prev = NoPrev
  /\ FusionOff
  /\ dIn \in DecodeInputs
  /\ dpc = "ready"
  /\ dOut = NoOutput
  /\ UiOff

Returns(op, val) ==
  /\ dpc' = "done"
  /\ dOut' = [op |-> op, val |-> val]
  /\ UNCHANGED <<dIn, batchVars, fusionVars, uiVars>>

\* lines 124-127
DecodeSeenTime ==
  /\ dpc = "ready" /\ dIn.kind = "bytes"
  /\ Returns("decodeSeenTime", decodeSeenTime(dIn.bytes))

\* lines 129-139
DecodeLocation ==
  /\ dpc = "ready" /\ dIn.kind = "bytes"
  /\ Returns("decodeLocation", decodeLocation(dIn.bytes))

\* lines 183-188
DecodeBatteryStatus ==
  /\ dpc = "ready" /\ dIn.kind = "bytes"
  /\ Returns("decodeBatteryStatus", decodeBatteryStatus(dIn.bytes))

\* lines 78-88
SlicePayload ==
  /\ dpc = "ready" /\ dIn.kind = "payload"
  /\ Returns("payloadSlices", payloadSlices(dIn.bytes))

\* lines 91-93: the shared secret of the private key k and the point e*G
GetECDHKeyDerivation ==
  /\ dpc = "ready" /\ dIn.kind = "ecdh"
  /\ Returns("getECDHKeyDerivation",
             getECDHKeyDerivation(keyFromPublic(EncodePoint(dIn.e)).val, dIn.k))

\* lines 94-100: the key is derived and the sealed data opened
DeriveAndDecrypt ==
  /\ dpc = "ready" /\ dIn.kind = "sealed"
  /\ LET derivedKey == keyDerivation(dIn.secret, dIn.eph)
     IN Returns("decryptEncryptedData",
                [derivedKey |-> derivedKey,
                 decrypted  |-> decryptEncryptedData(SubSeq(dIn.data, 1, Len(dIn.data) - 16),
                                                     derivedKey,
                                                     SubSeq(dIn.data, Len(dIn.data) - 15,
                                                            Len(dIn.data)))])

\* lines 56-62
GetAdvertisementKey ==
  /\ dpc = "ready" /\ dIn.kind = "key"
  /\ Returns("getAdvertisementKey", getAdvertisementKey(dIn.key))

NextDecode ==
  \/ DecodeSeenTime \/ DecodeLocation \/ DecodeBatteryStatus \/ SlicePayload
  \/ GetECDHKeyDerivation \/ DeriveAndDecrypt \/ GetAdvertisementKey

SpecDecode == InitDecode /\ [][NextDecode]_vars

(* ------------------------------------------------------------------ *)
(* components/timeline-control.tsx: the window over the reports        *)
(*                                                                    *)
(* Times are milliseconds of local time counted from the midnight     *)
(* that starts the first calendar day; daylight saving is left out.   *)
(* ------------------------------------------------------------------ *)

MaxTimelineReports == 3
TimelineDays == 4
LongTimeline == 40

\* the length of a local day, which setHours(0,0,0,0) and
\* setHours(23,59,59,999) mark the first and last millisecond of
DayMs == 86400000

Min(a, b) == IF a <= b THEN a ELSE b

startOfDay(t) == (t \div DayMs) * DayMs
endOfDay(t) == startOfDay(t) + (DayMs - 1)

BatchOff ==
  /\ server = {}
  /\ device = NewDevice(B64(<<3>>))
  /\ pc = "off"
  /\ reports = <<>>
  /\ decryptedReports = <<>>
  /\ i = 0
  /\ result = NoResult
  /\ attempts = <<>>
  /\ calls = 0
  /\ deviceAtCall = device
  /\ prev = NoPrev

\* handleDateSelect without the final clamp of fromIdx
handleDateSelectNoClamp(reps, range) ==
  IF ~Has(range, "from") \/ Len(reps) = 0
  THEN [called |-> FALSE]
  ELSE LET toDate    == IF Has(range, "to") THEN range.to ELSE range.from
           fromStart == startOfDay(range.from)
           toEnd     == endOfDay(toDate)
           atOrAfter == { k \in 1..Len(reps) : reps[k] >= fromStart }
           atOrBefore == { k \in 1..Len(reps) : reps[k] <= toEnd }
           fromIdx   == IF atOrAfter = {} THEN 1
                        ELSE CHOOSE k \in atOrAfter : \A m \in atOrAfter : k <= m
           toIdx     == IF atOrBefore = {} THEN Len(reps)
                        ELSE CHOOSE k \in atOrBefore : \A m \in atOrBefore : k >= m
       IN [called |-> TRUE, range |-> <<fromIdx, toIdx>>]

\* lines 74-111: the window a calendar selection sets; an undefined range
\* is the empty record, a range of one day has no field to
handleDateSelect(reps, range) ==
  IF ~Has(range, "from") \/ Len(reps) = 0
  THEN [called |-> FALSE]
  ELSE LET toDate    == IF Has(range, "to") THEN range.to ELSE range.from
           fromStart == startOfDay(range.from)
           toEnd     == endOfDay(toDate)
           atOrAfter == { k \in 1..Len(reps) : reps[k] >= fromStart }
           atOrBefore == { k \in 1..Len(reps) : reps[k] <= toEnd }
           fromIdx   == IF atOrAfter = {} THEN 1
                        ELSE CHOOSE k \in atOrAfter : \A m \in atOrAfter : k <= m
           toIdx     == IF atOrBefore = {} THEN Len(reps)
                        ELSE CHOOSE k \in atOrBefore : \A m \in atOrBefore : k >= m
       IN [called |-> TRUE,
           range  |-> <<IF fromIdx > toIdx THEN toIdx ELSE fromIdx, toIdx>>]

\* line 131
stepSize(n) == Max(1, n \div 20)

\* nudgeLeft shifting by the whole step
nudgeLeftNoMin(range, n) ==
  LET shift == stepSize(n)
  IN IF shift <= 0 THEN range ELSE <<range[1] - shift, range[2] - shift>>

\* lines 134-138
nudgeLeft(range, n) ==
  LET shift == Min(stepSize(n), range[1] - 1)
  IN IF shift <= 0 THEN range ELSE <<range[1] - shift, range[2] - shift>>

\* lines 141-145
nudgeRight(range, n) ==
  LET shift == Min(stepSize(n), n - range[2])
  IN IF shift <= 0 THEN range ELSE <<range[1] + shift, range[2] + shift>>

\* lines 148-152
jumpToStart(range, n) ==
  IF range[1] = 1 THEN range
  ELSE LET span == range[2] - range[1] IN <<1, Min(n, 1 + span)>>

\* lines 155-159
jumpToEnd(range, n) ==
  IF range[2] = n THEN range
  ELSE LET span == range[2] - range[1] IN <<Max(1, n - span), n>>

\* lines 252-259: the days the calendar does not offer
disabled(reps, date) ==
  \/ Len(reps) = 0
  \/ date < startOfDay(reps[1])
  \/ date > endOfDay(reps[Len(reps)])

\* what onSelect can pass: nothing, one enabled day, or a range of enabled
\* days from an earlier to a later one
Selectable(reps) ==
  LET days == { d * DayMs : d \in 0..(TimelineDays - 1) }
      open == { d \in days : ~disabled(reps, d) }
  IN {<<>>} \cup { [from |-> d] : d \in open }
     \cup { r \in { [from |-> d, to |-> e] : d \in open, e \in open } : r.to >= r.from }

RECURSIVE AscendingLists(_, _)
\* the ascending sequences of length n over the times of a set
AscendingLists(times, n) ==
  IF n = 0 THEN {<<>>}
  ELSE { Append(s, t) : s \in AscendingLists(times, n - 1), t \in times }
       \cap { s \in [1..n -> times] : \A k \in 1..(n - 1) : s[k] <= s[k + 1] }

\* the reports the control is drawn for (it draws nothing for fewer than
\* two): short lists on the first and last millisecond of some days, and one
\* long list of evenly spaced reports, long enough for a step of two
TimelineLists ==
  LET edges == UNION { {d * DayMs, d * DayMs + (DayMs - 1)} : d \in 0..(TimelineDays - 1) }
  IN UNION { AscendingLists(edges, n) : n \in 2..MaxTimelineReports }
     \cup { [k \in 1..LongTimeline |-> (k - 1) * (DayMs \div 10)] }

InitTimeline ==
  /\ BatchOff
  /\ FusionOff
  /\ DecodeOff
  /\ MapViewOff
  /\ QueryOff
  /\ RetryOff
  /\ tlReports \in TimelineLists
  /\ filterRange = <<1, Len(tlReports)>>
  /\ tlLast = [op |-> "none"]

\* lines 292-299: one of the two thumbs of the slider is moved
SliderChange ==
  /\ tlReports # <<>>
  /\ \/ \E lo \in 1..filterRange[2] : filterRange' = <<lo, filterRange[2]>>
     \/ \E hi \in filterRange[1]..Len(tlReports) : filterRange' = <<filterRange[1], hi>>
  /\ tlLast' = [op |-> "slider"]
  /\ UNCHANGED <<tlReports, batchVars, fusionVars, decodeVars, mapVars, queryVars, retryVars>>

WindowStep(op, range) ==
  /\ tlReports # <<>>
  /\ filterRange' = range
  /\ tlLast' = [op |-> op, before |-> filterRange]
  /\ UNCHANGED <<tlReports, batchVars, fusionVars, decodeVars, mapVars, queryVars, retryVars>>

NudgeLeft == WindowStep("nudgeLeft", nudgeLeft(filterRange, Len(tlReports)))

NudgeRight == WindowStep("nudgeRight", nudgeRight(filterRange, Len(tlReports)))

JumpToStart == WindowStep("jumpToStart", jumpToStart(filterRange, Len(tlReports)))

JumpToEnd == WindowStep("jumpToEnd", jumpToEnd(filterRange, Len(tlReports)))

\* lines 74-111
HandleDateSelect ==
  /\ tlReports # <<>>
  /\ \E range \in Selectable(tlReports) :
       LET set == handleDateSelect(tlReports, range)
       IN /\ filterRange' = IF set.called THEN set.range ELSE filterRange
          /\ tlLast' = [op |-> "handleDateSelect", range |-> range, called |-> set.called]
  /\ UNCHANGED <<tlReports, batchVars, fusionVars, decodeVars, mapVars, queryVars, retryVars>>

NextTimeline ==
  \/ SliderChange \/ NudgeLeft \/ NudgeRight \/ JumpToStart \/ JumpToEnd
  \/ HandleDateSelect

SpecTimeline == InitTimeline /\ [][NextTimeline]_vars

(* ------------------------------------------------------------------ *)
(* components/map-view.tsx and components/leaflet-map.tsx: MapView     *)
(*                                                                    *)
(* Both files hold a MapView component; the one of leaflet-map.tsx    *)
(* has a second branch in the effect that syncs the reports.  An      *)
(* action is a handler or a hook update together with the effects of  *)
(* the renders it causes.                                             *)
(* ------------------------------------------------------------------ *)

MaxMapReports == 2

MapDeviceIds == {"d1", "d2"}

MapFiles == {"components/map-view.tsx", "components/leaflet-map.tsx"}

NeverSeen == [lastSeen |-> [null |-> TRUE], battery |-> "Unknown"]

WithBattery(r, b) == [r EXCEPT !.decrypedPayload.battery = b]

\* decoded reports of different seen time and battery, one with a latitude
\* out of range
MapPool ==
  { WithBattery(Rep("n1", 403121536, 50000000, 10, FusionNow), "Full"),
    WithBattery(Rep("n2", 403121536 + 44000, 50000000, 20, FusionNow - 3600), "Medium"),
    WithBattery(Rep("n4", 403121536, 50000000 + 61000, 0, FusionNow - 7200), "Low"),
    WithBattery(Rep("x1", 900000001, 50000000, 10, FusionNow + 3600), "Critical") }

\* what getReportsForDevice resolves to: decoded reports in ascending order
\* of seen time
MapLists ==
  UNION { { s \in [1..n -> MapPool] :
              \A k \in 1..(n - 1) :
                s[k].decrypedPayload.date < s[k + 1].decrypedPayload.date } :
          n \in 0..MaxMapReports }

\* data: reports = [] of the hook's result
ReportsOf(cache, cur) == IF cur = "none" THEN <<>> ELSE cache[cur].data

\* Array.prototype.slice
slice(arr, begin, end) == subarray(arr, begin, end)

\* lines 716-718: what setGuessedLocation is called with, <<>> when it is not
Guessed(best) == IF Has(best, "null") THEN <<>> ELSE <<best.lat, best.lon>>

\* the state guessedLocation after the effects: the last value set
LastSet(second, first, before) ==
  IF second # <<>> THEN second ELSE IF first # <<>> THEN first ELSE before

\* leaflet-map.tsx lines 707-732: the best location of the window, <<>> when
\* the effect sets nothing
BestOf(reps, range) ==
  LET filteredReports == IF Len(reps) > 0 THEN slice(reps, range[1] - 1, range[2]) ELSE <<>>
  IN IF Len(filteredReports) > 0
     THEN Guessed(calculateBestLocation(filteredReports, FusionNow))
     ELSE <<>>

\* the effects after a render: the sync of the reports, then the best
\* location for the window of that render and, when the sync has set another
\* window, for the new one
Effects(file, devs, cur, cache, loading, range, guessed) ==
  LET reps == ReportsOf(cache, cur)
      lastReport == reps[Len(reps)]
      sync ==
        IF cur # "none" /\ Len(reps) > 0
        THEN [devs   |-> [devs EXCEPT ![cur] =
                            [lastSeen |-> [date |-> lastReport.decrypedPayload.date],
                             battery  |-> lastReport.decrypedPayload.battery]],
              range  |-> <<1, Len(reps)>>,
              guessed |-> guessed]
        ELSE IF file = "components/leaflet-map.tsx" /\ cur # "none" /\ ~loading
        THEN [devs   |-> [devs EXCEPT ![cur] = NeverSeen],
              range  |-> <<0, 0>>,
              guessed |-> <<>>]
        ELSE [devs |-> devs, range |-> range, guessed |-> guessed]
  IN [devs    |-> sync.devs,
      range   |-> sync.range,
      guessed |-> LastSet(BestOf(reps, sync.range), BestOf(reps, range), sync.guessed)]

InitMapView ==
  /\ BatchOff
  /\ FusionOff
  /\ DecodeOff
  /\ TimelineOff
  /\ QueryOff
  /\ RetryOff
  /\ mvFile \in MapFiles
  /\ mvDevices = [d \in MapDeviceIds |-> NeverSeen]
  /\ currentDevice = "none"
  /\ mvCache = [d \in MapDeviceIds |-> [fetched |-> FALSE, data |-> <<>>]]
  /\ isLoading = FALSE
  /\ guessedLocation = <<>>

Render(cur, cache, loading, guessed) ==
  \E set \in {Effects(mvFile, mvDevices, cur, cache, loading, filterRange, guessed)} :
     /\ currentDevice' = cur
     /\ mvCache' = cache
     /\ isLoading' = loading
     /\ mvDevices' = set.devs
     /\ filterRange' = set.range
     /\ guessedLocation' = set.guessed
     /\ UNCHANGED <<mvFile, tlReports, tlLast, batchVars, fusionVars, decodeVars, queryVars, retryVars>>

\* leaflet-map.tsx lines 658-676, map-view.tsx lines 62-76: the same device
\* asks for a revalidation (which the hook of leaflet-map.tsx may throttle),
\* another device changes the key of the hook
OnDeviceChosen ==
  \E d \in MapDeviceIds, loading \in BOOLEAN :
    /\ IF d = currentDevice
       THEN loading \/ mvFile = "components/leaflet-map.tsx"
       ELSE loading \/ mvCache[d].fetched
    /\ Render(d, mvCache,
              IF d = currentDevice THEN isLoading \/ loading ELSE loading,
              IF d # currentDevice /\ mvFile = "components/leaflet-map.tsx"
              THEN <<>> ELSE guessedLocation)

\* the hook resolves with the list getReportsForDevice returned
FetchDone ==
  /\ currentDevice # "none" /\ isLoading
  /\ \E list \in MapLists :
       Render(currentDevice,
              [mvCache EXCEPT ![currentDevice] = [fetched |-> TRUE, data |-> list]],
              FALSE, guessedLocation)

\* the fetch fails: the hook keeps the data it had
FetchError ==
  /\ currentDevice # "none" /\ isLoading
  /\ Render(currentDevice, mvCache, FALSE, guessedLocation)

\* use-device-reports.ts line 36: the hook fetches again on its own
Revalidate ==
  /\ currentDevice # "none" /\ ~isLoading
  /\ Render(currentDevice, mvCache, TRUE, guessedLocation)

NextMapView == OnDeviceChosen \/ FetchDone \/ FetchError \/ Revalidate

SpecMapView == InitMapView /\ [][NextMapView]_vars

(* ------------------------------------------------------------------ *)
(* use-device-reports.ts (react-query): the delta fetch of the poller  *)
(*                                                                    *)
(* getPollerReportsForDevice is imported from get-reports.ts but is   *)
(* not part of the sources; what it resolves to is taken from the     *)
(* specification: decoded reports in ascending order of seen time,    *)
(* each raw report with its id and, optionally, receivedAt.  A        *)
(* receivedAt string is a sequence of character codes, all of the     *)
(* same width; the empty sequence is the empty string and undefined.  *)
(* ------------------------------------------------------------------ *)

MaxPollReports == 2
MaxPolls == 3

PollRep(id, date) == [id |-> id, decrypedPayload |-> [date |-> date]]

Received(r, at) == [id |-> r.id, receivedAt |-> at, decrypedPayload |-> r.decrypedPayload]

\* the reports the poller holds for the device: p3 was seen before p2 and
\* received after it, p4 was seen when p2 was and has no receivedAt
PollPool ==
  { Received(PollRep("p1", 10), <<1, 0>>),
    Received(PollRep("p2", 20), <<2, 0>>),
    Received(PollRep("p3", 15), <<3, 0>>),
    PollRep("p4", 20),
    Received(PollRep("p5", 30), <<2, 5>>) }

\* what getPollerReportsForDevice can resolve to: some of the reports held,
\* each once, in ascending order of seen time
PollerResponses ==
  UNION { { s \in [1..n -> PollPool] :
              /\ \A x, y \in 1..n : x # y => s[x].id # s[y].id
              /\ \A k \in 1..(n - 1) :
                   s[k].decrypedPayload.date <= s[k + 1].decrypedPayload.date } :
          n \in 0..MaxPollReports }

\* a > b of two strings
StrGreater(a, b) ==
  \E k \in 1..Len(a) :
    /\ \A m \in 1..(k - 1) : m <= Len(b) /\ a[m] = b[m]
    /\ k > Len(b) \/ a[k] > b[k]

RECURSIVE reduceLatest(_, _)
\* lines 46-52
reduceLatest(existingReports, latest) ==
  IF existingReports = <<>> THEN latest
  ELSE LET r == Head(existingReports)
       IN reduceLatest(Tail(existingReports),
                       IF Has(r, "receivedAt") /\ r.receivedAt # <<>>
                          /\ StrGreater(r.receivedAt, latest)
                       THEN r.receivedAt ELSE latest)

\* the receivedAt of the last cached report taken as the cursor
afterOfLastReport(existingReports) ==
  IF existingReports # <<>> /\ Has(existingReports[Len(existingReports)], "receivedAt")
  THEN existingReports[Len(existingReports)].receivedAt
  ELSE <<>>

\* lines 44-56: the cursor, <<>> when undefined
after(existingReports) ==
  IF Len(existingReports) > 0 THEN reduceLatest(existingReports, <<>>) ELSE <<>>

\* every new report taken as unseen
uniqueNewUnfiltered(existingReports, newReports) == newReports

\* lines 66-67
uniqueNew(existingReports, newReports) ==
  SelectSeq(newReports,
            LAMBDA r : \A k \in 1..Len(existingReports) : existingReports[k].id # r.id)

\* the merged list left in the order of the concatenation
sortMergedNone(merged) == merged

\* lines 71-75
sortMerged(merged) ==
  LET order == SortByDate([k \in 1..Len(merged) |-> k], merged)
  IN [k \in 1..Len(merged) |-> merged[order[k]]]

\* lines 38-79, with the reports getPollerReportsForDevice resolved to
queryFn(existingReports, newReports) ==
  IF after(existingReports) # <<>> /\ Len(existingReports) > 0
  THEN IF Len(uniqueNew(existingReports, newReports)) = 0
       THEN existingReports
       ELSE sortMerged(existingReports \o uniqueNew(existingReports, newReports))
  ELSE newReports

InitPoller ==
  /\ BatchOff
  /\ FusionOff
  /\ DecodeOff
  /\ TimelineOff
  /\ MapViewOff
  /\ RetryOff
  /\ qCache = <<>>
  /\ qPolls = 0
  /\ qLast = [op |-> "none"]

\* the query function runs and its result becomes the cached data
Poll ==
  /\ qPolls < MaxPolls
  /\ \E newReports \in PollerResponses :
       /\ qCache' = queryFn(qCache, newReports)
       /\ qLast' = [op |-> "poll", existingReports |-> qCache,
                    after |-> after(qCache), newReports |-> newReports]
  /\ qPolls' = qPolls + 1
  /\ UNCHANGED <<batchVars, fusionVars, decodeVars, timelineVars, mapVars, retryVars>>

\* getPollerReportsForDevice rejects: the cached data stays
PollFail ==
  /\ qPolls < MaxPolls
  /\ qLast' = [op |-> "failed"]
  /\ qPolls' = qPolls + 1
  /\ UNCHANGED <<qCache, batchVars, fusionVars, decodeVars, timelineVars, mapVars, retryVars>>

NextPoller == Poll \/ PollFail

SpecPoller == InitPoller /\ [][NextPoller]_vars

(* ------------------------------------------------------------------ *)
(* use-device-reports.ts: the retry policy of the fetch                *)
(*                                                                    *)
(* The hook exists for react-query (retry, retryDelay) and for SWR    *)
(* (onErrorRetry).  The libraries are modelled by what they do with   *)
(* these options: react-query asks retry(failureCount, error) with    *)
(* the number of failures before this one and, when it says true,     *)
(* runs the query function again after retryDelay; SWR calls          *)
(* onErrorRetry with the retryCount of the failed revalidation plus   *)
(* one, and the handler's revalidate({ retryCount }) starts the next. *)
(* ------------------------------------------------------------------ *)

MaxFetches == 2

RetryLimit == 3
RetryDelay == 5000

\* error.status of an Error that carries none
NoStatus == 0 - 1

ErrorStatuses == {NoStatus, 0, 401, 403, 404, 429, 500}

\* the time an attempt takes until it settles
FetchDurations == {200, 7000}

\* retry allowing one retry more
retryOnceMore(failureCount, status, usePoller) ==
  IF status = 404 THEN FALSE
  ELSE IF status = 401 \/ status = 403 THEN FALSE
  ELSE IF usePoller /\ (status = NoStatus \/ status = 0) THEN FALSE
  ELSE failureCount <= RetryLimit

\* part_000 lines 87-98
retry(failureCount, status, usePoller) ==
  IF status = 404 THEN FALSE
  ELSE IF status = 401 \/ status = 403 THEN FALSE
  ELSE IF usePoller /\ (status = NoStatus \/ status = 0) THEN FALSE
  ELSE failureCount < RetryLimit

\* onErrorRetry without the check for the poller
onErrorRetryNoPollerCheck(status, retryCount, usePoller) ==
  IF status = 404 THEN FALSE
  ELSE IF status = 401 \/ status = 403 THEN FALSE
  ELSE IF retryCount >= RetryLimit THEN FALSE
  ELSE TRUE

\* use-device-reports.ts lines 41-55: TRUE when the handler sets the timer
\* that revalidates
onErrorRetry(status, retryCount, usePoller) ==
  IF status = 404 THEN FALSE
  ELSE IF status = 401 \/ status = 403 THEN FALSE
  ELSE IF usePoller /\ (status = NoStatus \/ status = 0) THEN FALSE
  ELSE IF retryCount >= RetryLimit THEN FALSE
  ELSE TRUE

InitRetry ==
  /\ BatchOff
  /\ FusionOff
  /\ DecodeOff
  /\ TimelineOff
  /\ MapViewOff
  /\ QueryOff
  /\ rHook \in {"react-query", "swr"}
  /\ rUsePoller \in BOOLEAN
  /\ rPhase = "idle"
  /\ rFailureCount = 0
  /\ rRetries = 0
  /\ rError = 0
  /\ rNow = 0
  /\ rFailedAt = 0
  /\ rFetches = 0

OutsideRetry == <<batchVars, fusionVars, decodeVars, timelineVars, mapVars, queryVars>>

\* the hook starts a fetch: on mount, on the refetch interval, on refresh
StartFetch ==
  /\ rPhase \in {"idle", "success", "error"}
  /\ rFetches < MaxFetches
  /\ rPhase' = "fetching"
  /\ rFailureCount' = 0
  /\ rRetries' = 0
  /\ rFetches' = rFetches + 1
  /\ UNCHANGED <<rHook, rUsePoller, rError, rNow, rFailedAt, OutsideRetry>>

\* the attempt resolves
Succeed ==
  /\ rPhase = "fetching"
  /\ \E d \in FetchDurations : rNow' = rNow + d
  /\ rPhase' = "success"
  /\ UNCHANGED <<rHook, rUsePoller, rFailureCount, rRetries, rError, rFailedAt, rFetches,
                 OutsideRetry>>

\* the attempt rejects and the library asks the hook whether to retry
Fail ==
  /\ rPhase = "fetching"
  /\ \E d \in FetchDurations, status \in ErrorStatuses :
       /\ rNow' = rNow + d
       /\ rFailedAt' = rNow + d
       /\ rError' = status
       /\ IF rHook = "react-query"
          THEN IF retry(rFailureCount, status, rUsePoller)
               THEN rPhase' = "waiting" /\ rFailureCount' = rFailureCount + 1
               ELSE rPhase' = "error" /\ rFailureCount' = rFailureCount
          ELSE IF onErrorRetry(status, rFailureCount + 1, rUsePoller)
               THEN rPhase' = "waiting" /\ rFailureCount' = rFailureCount + 1
               ELSE rPhase' = "error" /\ rFailureCount' = rFailureCount
  /\ UNCHANGED <<rHook, rUsePoller, rRetries, rFetches, OutsideRetry>>

\* the delay has passed and the fetch is made again
TimerFires ==
  /\ rPhase = "waiting"
  /\ rNow' = rFailedAt + RetryDelay
  /\ rPhase' = "fetching"
  /\ rRetries' = rRetries + 1
  /\ UNCHANGED <<rHook, rUsePoller, rFailureCount, rError, rFailedAt, rFetches, OutsideRetry>>

NextRetry == StartFetch \/ Succeed \/ Fail \/ TimerFires

SpecRetry == InitRetry /\ [][NextRetry]_vars

\* timers fire and every attempt settles
SpecRetryFair ==
  /\ InitRetry
  /\ [][NextRetry]_vars
  /\ WF_vars(TimerFires)
  /\ WF_vars(Succeed \/ Fail)

(* ------------------------------------------------------------------ *)
(* Properties of getReportsForDevice                                   *)
(* ------------------------------------------------------------------ *)

Returned == pc = "done"

\* the report objects as the fetch returned them: the server's raw reports,
\* in the order of the fetch
reportsAtFetch ==
  [k \in 1..Len(reports) |-> Fetched(CHOOSE raw \in server : raw.id = reports[k].id)]

Decoded(seq) ==
  [k \in 1..Len(seq) |-> [id |-> seq[k].id, decrypedPayload |-> seq[k].decrypedPayload]]

DateOf(r) == r.decrypedPayload.date

OutputIds == { result.val[k].id : k \in 1..Len(result.val) }

Decrypts(r) == decryptPayload(r.payload, device.privateKey).ok

\* C1: the sequence getReportsForDevice returns is sorted ascending by the
\* decoded seen time: of two adjacent reports the first is not later than
\* the second.
C1_OutputSortedAscending ==
  Returned =>
    \A k \in 1..(Len(result.val) - 1) : DateOf(result.val[k]) <= DateOf(result.val[k + 1])

\* a call has returned at least two reports that were decrypted in descending
\* order of seen time
C1_Witness ==
  /\ Returned
  /\ \E j, k \in 1..Len(reports) :
       /\ j < k
       /\ Has(reports[j], "decrypedPayload")
       /\ Has(reports[k], "decrypedPayload")
       /\ DateOf(reports[j]) > DateOf(reports[k])

\* C2: a report is in the output exactly when its own decryptPayload call
\* succeeded; every report is attempted once and no more; a failure does not
\* end the call (the call only fails before the first attempt).
C2_OutputIffDecrypted ==
  /\ \A k \in 1..Len(attempts) : attempts[k] <= 1
  /\ pc = "failed" => \A k \in 1..Len(attempts) : attempts[k] = 0
  /\ Returned =>
       /\ \A k \in 1..Len(reports) :
            /\ attempts[k] = 1
            /\ (reports[k].id \in OutputIds) <=> Decrypts(reportsAtFetch[k])
       /\ Len(result.val) = Cardinality(OutputIds)

\* a call has returned a report that was fetched after one that failed
C2_Witness ==
  /\ Returned
  /\ \E j, k \in 1..Len(reports) :
       /\ j < k
       /\ ~Decrypts(reportsAtFetch[j])
       /\ reports[k].id \in OutputIds

\* C3: an invalid private key (malformed, or a scalar outside 1..n-1) makes
\* the call fail before anything is fetched or decrypted, and nothing else
\* makes the decryption stage fail.
C3_InvalidKeyAborts ==
  /\ (calls > 0 /\ ~ValidKey(deviceAtCall.privateKey)) => pc = "failed"
  /\ pc = "failed" => \A k \in 1..Len(attempts) : attempts[k] = 0

GenuinePayloads == {PayA, PayB, PayC, PayD, PayE}
TamperedPayloads == {Alter(PayA, 88)}

Untampered(r) == r.payload.valid /\ r.payload.bin \in GenuinePayloads
Tampered(r) == r.payload.valid /\ r.payload.bin \in TamperedPayloads

\* C4: when the tag or the ciphertext of a report was altered, decryptPayload
\* rejects and the report is absent from the output, while every untampered
\* report of the same batch is present (the key being the accessory's).
C4_TamperedDroppedOthersKept ==
  (Returned /\ device.privateKey = B64(<<3>>)
            /\ \E k \in 1..Len(reports) : Tampered(reports[k])) =>
    \A k \in 1..Len(reports) :
      /\ Tampered(reports[k]) =>
           ~Decrypts(reportsAtFetch[k]) /\ reports[k].id \notin OutputIds
      /\ Untampered(reports[k]) => reports[k].id \in OutputIds

Short(r) == r.payload.valid /\ Len(r.payload.bin) <= 82

\* C5: decryptPayload fails for every payload of 0..82 bytes; such a report
\* is never given a decrypedPayload, is absent from the output, and the call
\* still returns, with the other reports decrypted.
C5_ShortPayloadDropped ==
  /\ \A k \in 1..Len(reports) :
       Short(reports[k]) =>
         /\ ~Decrypts(reportsAtFetch[k])
         /\ ~Has(reports[k], "decrypedPayload")
         /\ \A j \in 1..Len(decryptedReports) : decryptedReports[j] # k
  /\ pc = "failed" => \A k \in 1..Len(attempts) : attempts[k] = 0 /\ ~Short(reports[k])
  /\ Returned =>
       \A k \in 1..Len(reports) :
         IF Short(reports[k]) THEN reports[k].id \notin OutputIds
         ELSE Decrypts(reportsAtFetch[k]) => reports[k].id \in OutputIds

\* a call has returned a report that was fetched after a report of 82 bytes
C5_Witness ==
  /\ Returned
  /\ \E j, k \in 1..Len(reports) :
       /\ j < k
       /\ Len(reports[j].payload.bin) = 82
       /\ attempts[j] = 1
       /\ reports[k].id \in OutputIds

SameInput ==
  prev.valid /\ prev.input = { reportsAtFetch[k].id : k \in 1..Len(reportsAtFetch) }

Dates(seq) == [k \in 1..Len(seq) |-> DateOf(seq[k])]

PositionOf(id) == CHOOSE k \in 1..Len(reports) : reports[k].id = id

\* C7 as stated: two calls on the same reports with the same key return the
\* same sequence, whatever the order in which the reports were fetched.
C7_OrderIndependent ==
  (Returned /\ SameInput) => Decoded(result.val) = prev.output

\* C7 as amended: two calls on the same reports return the same reports with
\* the same sequence of seen times; reports with equal seen time come out in
\* the order in which they were fetched, so the two sequences are identical
\* when the seen times are pairwise distinct.
C7_OrderOnlyMattersForTies ==
  (Returned /\ SameInput) =>
    /\ { Decoded(result.val)[k] : k \in 1..Len(result.val) }
         = { prev.output[k] : k \in 1..Len(prev.output) }
    /\ Dates(result.val) = Dates(prev.output)
    /\ \A j, k \in 1..Len(result.val) :
         (j < k /\ DateOf(result.val[j]) = DateOf(result.val[k])) =>
           PositionOf(result.val[j].id) < PositionOf(result.val[k].id)
    /\ (\A j, k \in 1..Len(result.val) :
          j # k => DateOf(result.val[j]) # DateOf(result.val[k]))
         => Decoded(result.val) = prev.output

\* a second call has returned the same two or more reports, fetched in
\* another order than by the first call, as the same sequence
C7_Witness ==
  /\ Returned /\ SameInput
  /\ Len(result.val) >= 2
  /\ Decoded(result.val) = prev.output
  /\ \E j, k \in 1..Len(result.val) :
       j < k /\ PositionOf(result.val[j].id) > PositionOf(result.val[k].id)

(* ------------------------------------------------------------------ *)
(* Properties of calculateBestLocation                                 *)
(* ------------------------------------------------------------------ *)

FusionReturned == fpc = "returned"

IsNull(v) == Has(v, "null")

\* a valid report: latitude in [-90, 90], longitude in [-180, 180], accuracy
\* and timestamp present
ClaimValid(r) ==
  /\ Has(r, "decrypedPayload")
  /\ Has(r.decrypedPayload, "location")
  /\ Has(r.decrypedPayload.location, "latitude")
  /\ Has(r.decrypedPayload.location, "longitude")
  /\ r.decrypedPayload.location.latitude \in (0 - 900000000)..900000000
  /\ r.decrypedPayload.location.longitude \in (0 - 1800000000)..1800000000
  /\ Has(r.decrypedPayload.location, "accuracy")
  /\ Has(r.decrypedPayload, "date")

ValidPositions == { k \in 1..Len(fInput) : ClaimValid(fInput[k]) }

Members(seq) == { seq[k] : k \in 1..Len(seq) }

\* C8: calculateBestLocation returns null when the input is empty or holds
\* no valid report, and an estimate (a record with lat, lon and the two
\* counts) when it holds at least one.
C8_NullIffNoValidReport ==
  FusionReturned =>
    /\ ValidPositions = {} <=> IsNull(fOutput)
    /\ ValidPositions # {} =>
         DOMAIN fOutput = {"lat", "lon", "reportsInCluster", "totalValidReports"}

\* the function has returned null for an array of two or more reports, none
\* of them valid
C8_Witness ==
  /\ FusionReturned
  /\ Len(fInput) >= 2
  /\ ValidPositions = {}
  /\ IsNull(fOutput)

RECURSIVE OnlyValid(_)
OnlyValid(seq) ==
  IF seq = <<>> THEN <<>>
  ELSE IF ClaimValid(Head(seq)) THEN <<Head(seq)>> \o OnlyValid(Tail(seq))
       ELSE OnlyValid(Tail(seq))

\* C9: the reports kept as valid are exactly those with latitude and
\* longitude in range, accuracy present and timestamp present;
\* totalValidReports is their number; a report that fails a condition is
\* neither the anchor nor in the cluster, and the result is the same as
\* without it.
C9_ValidExactlyWhenInRangeAndComplete ==
  FusionReturned =>
    /\ \A k \in 1..Len(fInput) : fInput[k] \in Members(fLocals.valid) <=> k \in ValidPositions
    /\ Len(fLocals.valid) = Cardinality(ValidPositions)
    /\ ~IsNull(fOutput) =>
         /\ fOutput.totalValidReports = Cardinality(ValidPositions)
         /\ ClaimValid(fLocals.valid[1])
         /\ \A k \in 1..Len(fLocals.cluster) : ClaimValid(fLocals.cluster[k])
         /\ fOutput = calculateBestLocation(OnlyValid(fInput), fNow)

\* the function has returned an estimate for an array in which a report
\* that is not valid is newer than every valid one
C9_Witness ==
  /\ FusionReturned
  /\ ~IsNull(fOutput)
  /\ \E k \in 1..Len(fInput) :
       /\ k \notin ValidPositions
       /\ Has(fInput[k], "decrypedPayload")
       /\ Has(fInput[k].decrypedPayload, "date")
       /\ \A j \in ValidPositions : DateOf(fInput[j]) < DateOf(fInput[k])

DistanceDm(a, b) ==
  haversineMeters(a.decrypedPayload.location.latitude, a.decrypedPayload.location.longitude,
                  b.decrypedPayload.location.latitude, b.decrypedPayload.location.longitude)

\* C10: the anchor is a valid report whose seen time no valid report
\* exceeds; the cluster holds exactly the valid reports within 500 m of the
\* anchor, and reportsInCluster is their number.
C10_AnchorNewestClusterWithinRadius ==
  (FusionReturned /\ ValidPositions # {}) =>
    LET anchor == fLocals.valid[1]
        near   == { k \in ValidPositions : DistanceDm(anchor, fInput[k]) <= 500 * 10 }
    IN /\ \E k \in ValidPositions : fInput[k] = anchor
       /\ \A k \in ValidPositions : DateOf(fInput[k]) <= DateOf(anchor)
       /\ Members(fLocals.cluster) = { fInput[k] : k \in near }
       /\ Len(fLocals.cluster) = Cardinality(near)
       /\ fOutput.reportsInCluster = Cardinality(near)

\* the function has returned for an array whose newest valid report is not
\* the first element, with a valid report inside and one outside the radius
C10_Witness ==
  /\ FusionReturned
  /\ ValidPositions # {}
  /\ fInput[1] # fLocals.valid[1]
  /\ fOutput.reportsInCluster >= 2
  /\ fOutput.reportsInCluster < fOutput.totalValidReports

LocOf(r) == r.decrypedPayload.location

SamePoint(a, b) ==
  LocOf(a).latitude = LocOf(b).latitude /\ LocOf(a).longitude = LocOf(b).longitude

\* the reports are all valid, of one seen time and one accuracy; the report
\* at position far lies 600 m (within a metre) from each of the others, which
\* are two or more and at one point
FarReportScenario(far) ==
  /\ Len(fInput) >= 3
  /\ ValidPositions = 1..Len(fInput)
  /\ \A j, k \in 1..Len(fInput) :
       /\ DateOf(fInput[j]) = DateOf(fInput[k])
       /\ LocOf(fInput[j]).accuracy = LocOf(fInput[k]).accuracy
       /\ (j # far /\ k # far) => SamePoint(fInput[j], fInput[k])
  /\ \A k \in 1..Len(fInput) :
       k # far => DistanceDm(fInput[far], fInput[k]) \in 5990..6010

\* the estimate is the location of report r
CentroidAt(out, r) ==
  /\ ~out.lat.nan /\ ~out.lon.nan
  /\ out.lat.centre = LocOf(r).latitude /\ out.lat.num = 0
  /\ out.lon.centre = LocOf(r).longitude /\ out.lon.num = 0

RECURSIVE Gcd(_, _)
Gcd(a, b) == IF b = 0 THEN a ELSE Gcd(b, a % b)

\* the fraction num / den in lowest terms (den > 0)
Reduced(num, den) ==
  LET g == Gcd(Abs(num), den) IN <<num \div g, den \div g>>

AgeHours(r) == (fNow - DateOf(r)) \div 3600

ClusterAges == { AgeHours(fLocals.cluster[k]) : k \in 1..Len(fLocals.cluster) }

OldestAge == CHOOSE a \in ClusterAges : \A b \in ClusterAges : b <= a

\* (1 / max(1, accuracy)) * 0.5^ageHours, times 480 * 2^OldestAge
StatedWeight(r) ==
  (480 \div (IF LocOf(r).accuracy < 1 THEN 1 ELSE LocOf(r).accuracy))
    * Pow2(OldestAge - AgeHours(r))

RECURSIVE SumOver(_, _)
SumOver(seq, k) == IF k > Len(seq) THEN 0 ELSE seq[k] + SumOver(seq, k + 1)

StatedWeights == [k \in 1..Len(fLocals.cluster) |-> StatedWeight(fLocals.cluster[k])]

\* the weighted sums of the offsets of the cluster members from the anchor
StatedLatSum ==
  SumOver([k \in 1..Len(fLocals.cluster) |->
             StatedWeights[k] * (LocOf(fLocals.cluster[k]).latitude - fOutput.lat.centre)], 1)

StatedLonSum ==
  SumOver([k \in 1..Len(fLocals.cluster) |->
             StatedWeights[k] * (LocOf(fLocals.cluster[k]).longitude - fOutput.lon.centre)], 1)

\* C12: the fused latitude and longitude are the weighted means of the
\* cluster members' coordinates with the weights (1 / max(1, accuracy)) *
\* 0.5^ageHours: they are numbers, and equal to the quotient of the weighted
\* sum and the sum of the weights (compared in lowest terms, for clusters
\* whose ages lie within four hours of each other).
C12_CentroidIsWeightedMean ==
  (FusionReturned /\ ~IsNull(fOutput)) =>
    /\ ~fOutput.lat.nan /\ ~fOutput.lon.nan
    /\ fOutput.lat.den > 0 /\ fOutput.lon.den > 0
    /\ (\A a, b \in ClusterAges : a - b <= 4) =>
         /\ Reduced(fOutput.lat.num, fOutput.lat.den)
              = Reduced(StatedLatSum, SumOver(StatedWeights, 1))
         /\ Reduced(fOutput.lon.num, fOutput.lon.den)
              = Reduced(StatedLonSum, SumOver(StatedWeights, 1))

Did(op) == dpc = "done" /\ dOut.op = op

\* bytes k..k+3 (counted from 0) as an unsigned big-endian number, in two
\* halves of 16 bits
HighHalf(bytes, k) == bytes[k + 1] * 256 + bytes[k + 2]
LowHalf(bytes, k) == bytes[k + 3] * 256 + bytes[k + 4]

\* C14: the decoded seen time is 2001-01-01T00:00:00Z plus the first four
\* payload bytes read as an unsigned big-endian number of seconds: the offset
\* is never negative, its upper 16 bits are bytes 0-1 and its lower 16 bits
\* are bytes 2-3.
C14_SeenTimeUnsigned ==
  Did("decodeSeenTime") =>
    /\ dOut.val >= 0
    /\ dOut.val \div 65536 = HighHalf(dIn.bytes, 0)
    /\ dOut.val % 65536 = LowHalf(dIn.bytes, 0)

\* bytes k..k+3 (counted from 0) as a big-endian two's-complement number
SignedBE(bytes, k) ==
  (IF HighHalf(bytes, k) >= 32768 THEN HighHalf(bytes, k) - 65536 ELSE HighHalf(bytes, k))
    * 65536 + LowHalf(bytes, k)

\* C15: the decoded latitude times 1e7 is bytes 0-3 of the plaintext read as
\* a big-endian two's-complement 32-bit integer, the longitude times 1e7 is
\* bytes 4-7 read the same way, and the accuracy is byte 8, in 0..255.
C15_LocationSignedBigEndian ==
  Did("decodeLocation") =>
    /\ dOut.val.latitude = SignedBE(dIn.bytes, 0)
    /\ dOut.val.longitude = SignedBE(dIn.bytes, 4)
    /\ dOut.val.accuracy = dIn.bytes[9]
    /\ dOut.val.accuracy \in 0..255

\* a plaintext with the top bit of byte 0 set and that of byte 4 clear has
\* been decoded to a negative latitude and a positive longitude
C15_Witness ==
  /\ Did("decodeLocation")
  /\ dIn.bytes[1] >= 128 /\ dIn.bytes[5] < 128
  /\ dOut.val.latitude < 0 /\ dOut.val.longitude > 0

\* C16: for the private key k and the point e*G the shared secret handed to
\* the key derivation is the 28-byte big-endian x-coordinate of (e*k)*G,
\* leading zero bytes included; the conversion does not fail.
C16_SharedSecret28Bytes ==
  Did("getECDHKeyDerivation") =>
    /\ dOut.val.ok
    /\ Len(dOut.val.val) = 28
    /\ dOut.val.val = XCoord(GroupMul(dIn.e, dIn.k))

\* the battery level named by the top two bits of a byte
StatedBattery(byte) ==
  CASE byte \in 0..63    -> "Full"
    [] byte \in 64..127  -> "Medium"
    [] byte \in 128..191 -> "Low"
    [] byte \in 192..255 -> "Critical"

\* C17: the decoded battery level is Full, Medium, Low or Critical according
\* to the top two bits 00, 01, 10, 11 of plaintext byte 9, whatever the lower
\* six bits.
C17_BatteryFromTopTwoBits ==
  Did("decodeBatteryStatus") =>
    /\ dOut.val = StatedBattery(dIn.bytes[10])
    /\ dOut.val \in {"Full", "Medium", "Low", "Critical"}

\* a byte 9 with top bits 10 and all lower bits set has been decoded as Low
C17_Witness ==
  /\ Did("decodeBatteryStatus")
  /\ dIn.bytes[10] = 191
  /\ dOut.val = "Low"

\* C18: for a payload of L >= 83 bytes the ephemeral key is bytes
\* [L-83, L-26), the ciphertext bytes [L-26, L-16) and the tag bytes
\* [L-16, L): 57, 10 and 16 bytes that together are the last 83 bytes.
C18_SlicesFromPayloadEnd ==
  Did("payloadSlices") =>
    LET L == Len(dIn.bytes)
    IN /\ L >= 83
       /\ dOut.val.ephemeralKeyBytes = [k \in 1..57 |-> dIn.bytes[L - 83 + k]]
       /\ dOut.val.encryptedData = [k \in 1..10 |-> dIn.bytes[L - 26 + k]]
       /\ dOut.val.tag = [k \in 1..16 |-> dIn.bytes[L - 16 + k]]
       /\ dOut.val.ephemeralKeyBytes \o dOut.val.encryptedData \o dOut.val.tag
            = SubSeq(dIn.bytes, L - 82, L)

\* a payload of 91 bytes has been sliced, the ephemeral key starting at its
\* format byte 0x04
C18_Witness ==
  /\ Did("payloadSlices")
  /\ Len(dIn.bytes) = 91
  /\ dOut.val.ephemeralKeyBytes[1] = 4
  /\ dIn.bytes[6] # 4

\* C19: the derived key is the digest of shared secret || 00 00 00 01 ||
\* ephemeral key, and data sealed with the first 16 bytes of that digest as
\* key and the last 16 as IV is opened to its plaintext (and is not sealed
\* under the two halves exchanged).
C19_DerivedKeyAndIv ==
  Did("decryptEncryptedData") =>
    /\ dOut.val.derivedKey = Digest(dIn.secret \o <<0, 0, 0, 1>> \o dIn.eph)
    /\ Len(dOut.val.derivedKey) = 32
    /\ dOut.val.decrypted.ok
    /\ dOut.val.decrypted.val = dIn.pt
    /\ dIn.data # GcmEncrypt(SubSeq(dOut.val.derivedKey, 17, 32),
                             SubSeq(dOut.val.derivedKey, 1, 16), dIn.pt)

\* data sealed for a shared secret with a leading zero byte has been opened
C19_Witness ==
  /\ Did("decryptEncryptedData")
  /\ dIn.secret[1] = 0
  /\ dOut.val.decrypted.ok
  /\ dOut.val.decrypted.val = PlainC

\* the scalar of a private key, when the key is well-formed and not zero
\* modulo the group order
HasScalar(key) == key.valid /\ BytesValue(0, key.bin, 1) % 7 # 0

\* C20: the advertisement key of a private key is the base64 form of the
\* digest of the 28-byte x-coordinate of its public point (leading zeros
\* included), which is 32 bytes; it depends on the key's scalar only.
C20_AdvertisementKeyFixedSize ==
  (Did("getAdvertisementKey") /\ HasScalar(dIn.key)) =>
    LET x == XCoord(BytesValue(0, dIn.key.bin, 1) % 7)
    IN /\ dOut.val.ok
       /\ Len(x) = 28
       /\ dOut.val.val = B64(Digest(x))
       /\ dOut.val.val.valid
       /\ Len(dOut.val.val.bin) = 32

\* the advertisement key of a private key whose public x-coordinate has a
\* leading zero byte has been computed
C20_Witness ==
  /\ Did("getAdvertisementKey")
  /\ HasScalar(dIn.key)
  /\ XCoord(BytesValue(0, dIn.key.bin, 1) % 7)[1] = 0
  /\ dOut.val.ok

(* ------------------------------------------------------------------ *)
(* More properties of calculateBestLocation                            *)
(* ------------------------------------------------------------------ *)

\* C28: when an estimate is returned, 1 <= reportsInCluster <=
\* totalValidReports, and the anchor (the first of the valid reports as
\* sorted) is a member of the cluster.
C28_ClusterCountBounds ==
  (FusionReturned /\ ~IsNull(fOutput)) =>
    /\ 1 <= fOutput.reportsInCluster
    /\ fOutput.reportsInCluster <= fOutput.totalValidReports
    /\ fLocals.valid[1] \in Members(fLocals.cluster)
    /\ Len(fLocals.cluster) >= 1

\* an estimate has been returned whose cluster is the anchor alone, among
\* two or more valid reports
C28_Witness ==
  /\ FusionReturned
  /\ ~IsNull(fOutput)
  /\ fOutput.reportsInCluster = 1
  /\ fOutput.totalValidReports >= 2

IsPermutation(a, b) == Len(a) = Len(b) /\ Members(a) = Members(b)

\* the first valid report of seq whose seen time no valid report exceeds
FirstNewest(seq) ==
  LET ok == { k \in 1..Len(seq) : ClaimValid(seq[k]) }
      newest == { k \in ok : \A j \in ok : DateOf(seq[j]) <= DateOf(seq[k]) }
  IN IF newest = {} THEN <<>> ELSE seq[CHOOSE k \in newest : \A j \in newest : k <= j]

ValidWindow(range, n) == 1 <= range[1] /\ range[1] <= range[2] /\ range[2] <= n

WindowSize(range) == range[2] - range[1]

WindowOps == {"nudgeLeft", "nudgeRight", "jumpToStart", "jumpToEnd"}

\* C26: from a window [lo, hi] with 1 <= lo <= hi <= n, nudgeLeft,
\* nudgeRight, jumpToStart and jumpToEnd each yield a window that again
\* satisfies 1 <= lo <= hi <= n and has the same size hi - lo; nudgeLeft at
\* lo = 1 and nudgeRight at hi = n leave the window as it was.
C26_WindowOpsKeepBoundsAndSize ==
  tlLast.op \in WindowOps =>
    /\ ValidWindow(tlLast.before, Len(tlReports))
    /\ ValidWindow(filterRange, Len(tlReports))
    /\ WindowSize(filterRange) = WindowSize(tlLast.before)
    /\ (tlLast.op = "nudgeLeft" /\ tlLast.before[1] = 1 => filterRange = tlLast.before)
    /\ (tlLast.op = "nudgeRight" /\ tlLast.before[2] = Len(tlReports)
          => filterRange = tlLast.before)

\* a nudge to the left by less than the step of two, which stops at 1
C26_Witness ==
  /\ tlLast.op = "nudgeLeft"
  /\ stepSize(Len(tlReports)) >= 2
  /\ tlLast.before[1] = 2
  /\ tlLast.before[2] < Len(tlReports)
  /\ filterRange = <<1, tlLast.before[2] - 1>>

DateSelected == tlLast.op = "handleDateSelect" /\ tlLast.called

\* the first and the last millisecond of the days selected last
SelectedStart == startOfDay(tlLast.range.from)

SelectedEnd ==
  endOfDay(IF Has(tlLast.range, "to") THEN tlLast.range.to ELSE tlLast.range.from)

InSelectedDays(t) == SelectedStart <= t /\ t <= SelectedEnd

\* position k holds the first report at or after the start of the selection
FirstAtOrAfterStart(k) ==
  /\ tlReports[k] >= SelectedStart
  /\ \A m \in 1..(k - 1) : tlReports[m] < SelectedStart

\* position k holds the last report at or before the end of the selection
LastAtOrBeforeEnd(k) ==
  /\ tlReports[k] <= SelectedEnd
  /\ \A m \in (k + 1)..Len(tlReports) : tlReports[m] > SelectedEnd

\* C27 as stated: for every non-empty ascending report list and every
\* selected day range, handleDateSelect sets a window [fromIdx, toIdx] with
\* 1 <= fromIdx <= toIdx <= n, fromIdx the first report at or after the start
\* of the first selected day and toIdx the last report at or before the end of
\* the last selected day, so that every report in the window lies within the
\* selected days.
C27_WindowWithinSelectedDays ==
  DateSelected =>
    /\ ValidWindow(filterRange, Len(tlReports))
    /\ FirstAtOrAfterStart(filterRange[1])
    /\ LastAtOrBeforeEnd(filterRange[2])
    /\ \A k \in filterRange[1]..filterRange[2] : InSelectedDays(tlReports[k])

\* C27 amended: handleDateSelect sets a window [fromIdx, toIdx] with
\* 1 <= fromIdx <= toIdx <= n where toIdx is the last report at or before the
\* end of the last selected day; when some report lies within the selected
\* days, fromIdx is the first report at or after the start of the first
\* selected day and every report in the window lies within the selected days;
\* when no report lies within them, fromIdx = toIdx and the window holds the
\* one report that precedes the selected days.
C27_WindowWithinSelectedDaysUnlessEmpty ==
  DateSelected =>
    /\ ValidWindow(filterRange, Len(tlReports))
    /\ LastAtOrBeforeEnd(filterRange[2])
    /\ IF \E k \in 1..Len(tlReports) : InSelectedDays(tlReports[k])
       THEN /\ FirstAtOrAfterStart(filterRange[1])
            /\ \A k \in filterRange[1]..filterRange[2] : InSelectedDays(tlReports[k])
       ELSE /\ filterRange[1] = filterRange[2]
            /\ tlReports[filterRange[1]] < SelectedStart

\* days without a report were selected between two reports, and days with
\* some but not all reports were selected
C27_Witness ==
  /\ DateSelected
  /\ \/ /\ \A k \in 1..Len(tlReports) : ~InSelectedDays(tlReports[k])
        /\ filterRange[1] = filterRange[2]
        /\ filterRange[2] < Len(tlReports)
     \/ /\ Has(tlLast.range, "to")
        /\ filterRange[1] > 1
        /\ filterRange[1] < filterRange[2]
        /\ filterRange[2] < Len(tlReports)

(* ------------------------------------------------------------------ *)
(* Properties of the map view                                          *)
(* ------------------------------------------------------------------ *)

MapReports == ReportsOf(mvCache, currentDevice)

\* C21: after every synchronisation of the reports in the map view with a
\* non-empty list, lastSeen and battery of the device are those of the last
\* element of the list, which has the greatest seen time; when loading has
\* finished with an empty list, lastSeen is null, battery is Unknown, the
\* filter range is [0,0] and no best location is shown.
C21_DeviceFollowsLastReport ==
  currentDevice # "none" =>
    /\ Len(MapReports) > 0 =>
         LET lastReport == MapReports[Len(MapReports)]
         IN /\ mvDevices[currentDevice].lastSeen = [date |-> DateOf(lastReport)]
            /\ mvDevices[currentDevice].battery = lastReport.decrypedPayload.battery
            /\ \A k \in 1..Len(MapReports) : DateOf(MapReports[k]) <= DateOf(lastReport)
    /\ Len(MapReports) = 0 /\ ~isLoading =>
         /\ mvDevices[currentDevice] = NeverSeen
         /\ filterRange = <<0, 0>>
         /\ guessedLocation = <<>>

(* ------------------------------------------------------------------ *)
(* Properties of the delta fetch                                       *)
(* ------------------------------------------------------------------ *)

Polled == qLast.op = "poll"

DeltaPolled == Polled /\ qLast.after # <<>>

IdsOf(reps) == { reps[k].id : k \in 1..Len(reps) }

C23_CacheSortedByDate ==
  /\ \A k \in 1..(Len(qCache) - 1) : DateOf(qCache[k]) <= DateOf(qCache[k + 1])
  /\ \A k \in 1..Len(qCache) : DateOf(qCache[k]) <= DateOf(qCache[Len(qCache)])

\* a delta merge added a report seen before the newest cached one
C23_Witness ==
  /\ DeltaPolled
  /\ \E r \in IdsOf(qLast.newReports) \ IdsOf(qLast.existingReports) :
       \E k \in 1..(Len(qCache) - 1) :
         /\ qCache[k].id = r
         /\ DateOf(qCache[k]) < DateOf(qLast.existingReports[Len(qLast.existingReports)])

RECURSIVE StringTime(_)
\* the time a receivedAt string stands for
StringTime(s) == IF s = <<>> THEN 0 ELSE StringTime(SubSeq(s, 1, Len(s) - 1)) * 10 + s[Len(s)]

ReceivedTimes(reps) ==
  { StringTime(reps[k].receivedAt) : k \in { j \in 1..Len(reps) : Has(reps[j], "receivedAt") } }

\* C30: a delta fetch loses no cached data: when a poll is made with an
\* after cursor, every report cached before the poll is cached after it, the
\* cursor is the greatest receivedAt among the cached reports, and when the
\* response holds no report with an unseen id the cached list is returned
\* unchanged.
C30_DeltaFetchKeepsCache ==
  DeltaPolled =>
    /\ \A k \in 1..Len(qLast.existingReports) :
         \E m \in 1..Len(qCache) : qCache[m] = qLast.existingReports[k]
    /\ StringTime(qLast.after) \in ReceivedTimes(qLast.existingReports)
    /\ \A t \in ReceivedTimes(qLast.existingReports) : t <= StringTime(qLast.after)
    /\ (IdsOf(qLast.newReports) \subseteq IdsOf(qLast.existingReports)
          => qCache = qLast.existingReports)

\* a delta fetch, whose cursor is not that of the last cached report, got
\* only reports it had
C30_Witness ==
  /\ DeltaPolled
  /\ LET lastReport == qLast.existingReports[Len(qLast.existingReports)]
     IN ~Has(lastReport, "receivedAt") \/ lastReport.receivedAt # qLast.after
  /\ qLast.newReports # <<>>
  /\ IdsOf(qLast.newReports) \subseteq IdsOf(qLast.existingReports)
  /\ qCache = qLast.existingReports

(* ------------------------------------------------------------------ *)
(* Properties of the retry policy                                      *)
(* ------------------------------------------------------------------ *)

NeverRetried(status, usePoller) ==
  \/ status \in {404, 401, 403}
  \/ usePoller /\ status \in {NoStatus, 0}

\* C24: a failed report fetch is never retried when the error status is
\* 404, 401 or 403 and, when the poller is in use, never retried when the
\* error carries no status or status 0.
C24_NoRetryOnFinalErrors ==
  rPhase = "waiting" => ~NeverRetried(rError, rUsePoller)

\* a retried fetch of the poller failed without a status and was given up,
\* and one without the poller is retried after such an error
C24_Witness ==
  \/ /\ rPhase = "error" /\ rUsePoller /\ rError = NoStatus /\ rRetries = 1
  \/ /\ rPhase = "waiting" /\ ~rUsePoller /\ rError = NoStatus

Settled == rPhase \in {"idle", "success", "error"}

\* C25: for a fetch that keeps failing with a retryable error at most 3
\* retries are made, each 5 seconds after the failure before it; then
\* retrying stops and the error is reported: every fetch settles, none
\* retries for ever.
C25_RetriesBoundedAndStop ==
  /\ [](rRetries <= 3)
  /\ [](rPhase = "fetching" /\ rRetries > 0 => rNow = rFailedAt + 5000)
  /\ (~Settled ~> Settled)

\* the third retry has failed with a retryable error and the fetch has ended
\* with that error
C25_Witness ==
  /\ rPhase = "error"
  /\ rRetries = 3
  /\ rError = 500

====
